---- MODULE Spec2Model ----
(***************************************************************************)
(* Model of the documentation retrieval pipeline of the Adobe Express MCP  *)
(* server: src/src/index.ts (tool handlers setKnowledgeSource,             *)
(* queryDocumentation, getAssistantCapabilities and get-code-example,      *)
(* loadLocalKnowledgeBase) and src/src/github_doc_service.ts               *)
(* (GitHubDocService.searchFiles, getFileContent, getCodeSample,           *)
(* parseFileContentToMCPItems, extractTagsFromPath).                       *)
(*                                                                         *)
(* Spec is the server handling setKnowledgeSource and queryDocumentation   *)
(* calls; no handler of Spec reads GITHUB_TOKEN, so Spec follows a server  *)
(* started with a token.  SpecSegmenter runs parseFileContentToMCPItems    *)
(* over a family of documents, and the Local Index Builder over the same   *)
(* document; the builder is scripts/parse_docs.ts, whose source is not     *)
(* among the files above, and follows the documented segmentation rules.   *)
(* SpecTools is the server handling the other tools and the code-sample    *)
(* operation, started with or without a token.                             *)
(*                                                                         *)
(* JavaScript strings are TLA+ strings; the string methods the code uses   *)
(* (toLowerCase, includes, startsWith, split, trim, replace) are operators *)
(* computed character by character.  Confidence scores are in hundredths.  *)
(***************************************************************************)
EXTENDS Integers, Sequences, FiniteSets, TLC

VARIABLES
    currentKnowledgeMode,   \* index.ts:24   'github' | 'local'
    LOCAL_KNOWLEDGE_BASE,   \* index.ts:20   the loaded item collection
    query,                  \* the queryDocumentation call being handled
    lastSet,                \* the last setKnowledgeSource call and its response
    segmenter,              \* the last parseFileContentToMCPItems call and its result
    GITHUB_TOKEN,           \* github_doc_service.ts:40  TRUE: MCP_GITHUB_PAT is set
    tool                    \* the getAssistantCapabilities, get-code-example or
                            \* getCodeSample call being handled

vars ==
    <<currentKnowledgeMode, LOCAL_KNOWLEDGE_BASE, query, lastSet, segmenter,
      GITHUB_TOKEN, tool>>

-----------------------------------------------------------------------------
(* String.prototype methods                                                *)

Min(a, b) == IF a < b THEN a ELSE b

CharAt(s, i) == SubSeq(s, i, i)

UpperChars == "ABCDEFGHIJKLMNOPQRSTUVWXYZ"
LowerChars == "abcdefghijklmnopqrstuvwxyz"
DigitChars == "0123456789"

CharsOf(chars) == {CharAt(chars, i) : i \in 1..Len(chars)}
UpperSet == CharsOf(UpperChars)
LowerSet == CharsOf(LowerChars)
DigitSet == CharsOf(DigitChars)

LowerOf ==
    [c \in UpperSet |->
        CharAt(LowerChars, CHOOSE i \in 1..Len(UpperChars) : CharAt(UpperChars, i) = c)]

LowerChar(c) == IF c \in UpperSet THEN LowerOf[c] ELSE c

RECURSIVE ToLowerCase(_)
ToLowerCase(s) ==
    IF Len(s) = 0 THEN ""
    ELSE LowerChar(CharAt(s, 1)) \o ToLowerCase(SubSeq(s, 2, Len(s)))

\* s.includes(t): t occurs in s as a contiguous substring ("" occurs everywhere)
Includes(s, t) ==
    \E i \in 1..(Len(s) - Len(t) + 1) : SubSeq(s, i, i + Len(t) - 1) = t

StartsWith(s, t) == Len(t) <= Len(s) /\ SubSeq(s, 1, Len(t)) = t

\* the characters the regular expression class \s and trim() accept
IsWhitespace(c) == c \in {" ", "\n", "\t", "\r"}

\* the regular expression class \w
IsWordChar(c) == c \in UpperSet \/ c \in LowerSet \/ c \in DigitSet \/ c = "_"

\* s.split(sep) for a one-character separator: adjacent separators give ""
RECURSIVE SplitFrom(_, _, _, _)
SplitFrom(s, sep, i, cur) ==
    IF i > Len(s) THEN <<cur>>
    ELSE IF CharAt(s, i) = sep
         THEN <<cur>> \o SplitFrom(s, sep, i + 1, "")
         ELSE SplitFrom(s, sep, i + 1, cur \o CharAt(s, i))

Split(s, sep) == SplitFrom(s, sep, 1, "")

\* s.split(/\s+/): a run of whitespace is one separator; a leading or trailing
\* run gives one "" at that end
RECURSIVE SplitWsFrom(_, _, _)
SplitWsFrom(s, i, cur) ==
    IF i > Len(s) THEN <<cur>>
    ELSE IF IsWhitespace(CharAt(s, i))
         THEN IF i > 1 /\ IsWhitespace(CharAt(s, i - 1))
              THEN SplitWsFrom(s, i + 1, cur)
              ELSE <<cur>> \o SplitWsFrom(s, i + 1, "")
         ELSE SplitWsFrom(s, i + 1, cur \o CharAt(s, i))

SplitWhitespace(s) == SplitWsFrom(s, 1, "")

RECURSIVE TrimStart(_)
TrimStart(s) ==
    IF Len(s) > 0 /\ IsWhitespace(CharAt(s, 1)) THEN TrimStart(SubSeq(s, 2, Len(s))) ELSE s

RECURSIVE TrimEnd(_)
TrimEnd(s) ==
    IF Len(s) > 0 /\ IsWhitespace(CharAt(s, Len(s)))
    THEN TrimEnd(SubSeq(s, 1, Len(s) - 1)) ELSE s

Trim(s) == TrimEnd(TrimStart(s))

\* Array.prototype.filter: the elements of seq that are in kept, in their order
FilterSeq(seq, kept) ==
    LET F[i \in 0..Len(seq)] ==
            IF i = 0 THEN <<>>
            ELSE IF seq[i] \in kept THEN Append(F[i - 1], seq[i]) ELSE F[i - 1]
    IN  F[Len(seq)]

\* Array.prototype.slice(0, n)
SliceTo(seq, n) == SubSeq(seq, 1, Min(n, Len(seq)))

Range(seq) == {seq[i] : i \in 1..Len(seq)}

\* Array.prototype.sort((a, b) => key(b) - key(a)), keys[i] being the key of
\* seq[i]: descending by key, and stable (ECMAScript 2019), so elements of
\* equal key keep their order
StableSortDesc(seq, keys) ==
    LET Before(j, i) == keys[j] > keys[i] \/ (keys[j] = keys[i] /\ j < i)
        Rank(i) == Cardinality({j \in 1..Len(seq) : Before(j, i)}) + 1
    IN  [k \in 1..Len(seq) |-> seq[CHOOSE i \in 1..Len(seq) : Rank(i) = k]]

-----------------------------------------------------------------------------
(* Values of the tool inputs and of MCPResultItem                          *)

MODE_GITHUB == "github"
MODE_LOCAL == "local"
availableKnowledgeModes == {MODE_GITHUB, MODE_LOCAL}

EXPRESS_SDK == "express_sdk"
SPECTRUM_WEB_COMPONENTS == "spectrum_web_components"
ALL == "all"
\* an optional value that is absent (JavaScript undefined)
UNDEFINED == "undefined"
TargetSourceHints == {UNDEFINED, ALL, EXPRESS_SDK, SPECTRUM_WEB_COMPONENTS}

\* MCPResultItem; an absent parent_title is "" (both are falsy where it is read)
Item(type, title, content, tags, parent_title, dataSource) ==
    [type |-> type, title |-> title, content |-> content, tags |-> tags,
     parent_title |-> parent_title, dataSource |-> dataSource]

-----------------------------------------------------------------------------
(* queryDocumentation: target-source resolution                            *)

MentionsSpectrum(query_text) ==
    \/ Includes(ToLowerCase(query_text), "spectrum")
    \/ StartsWith(ToLowerCase(query_text), "sp-")

MentionsExpress(query_text) ==
    \/ Includes(ToLowerCase(query_text), "express")
    \/ Includes(ToLowerCase(query_text), "addon")

\* github branch: the hint is tested for absence only, so an explicit 'all'
\* is kept as it is
EffectiveTargetSource(target_source_hint, query_text) ==
    IF target_source_hint = UNDEFINED
    THEN IF MentionsSpectrum(query_text) THEN SPECTRUM_WEB_COMPONENTS
         ELSE IF MentionsExpress(query_text) THEN EXPRESS_SDK
         ELSE ALL
    ELSE target_source_hint

\* a local branch that never reads the query text for a target
EffectiveTargetSourceLocalHintOnly(target_source_hint, query_text) ==
    IF target_source_hint # UNDEFINED /\ target_source_hint # ALL
    THEN target_source_hint ELSE UNDEFINED

\* local branch: an absent hint and 'all' both leave the target undefined
\* before the query text is inspected
EffectiveTargetSourceLocal(target_source_hint, query_text) ==
    IF target_source_hint # UNDEFINED /\ target_source_hint # ALL
    THEN target_source_hint
    ELSE IF MentionsSpectrum(query_text) THEN SPECTRUM_WEB_COMPONENTS
         ELSE IF MentionsExpress(query_text) THEN EXPRESS_SDK
         ELSE UNDEFINED

-----------------------------------------------------------------------------
(* queryDocumentation: local scoring                                       *)

TITLE_WEIGHT == 3
TAG_WEIGHT == 2
CONTENT_WEIGHT == 1
PARENT_TITLE_BONUS == 1
DATA_SOURCE_BONUS == 1
MAX_RESULTS == 10

\* query_lower.split(/\s+/).filter(term => term.length > 1)
QueryTerms(query_text) ==
    LET words == SplitWhitespace(ToLowerCase(query_text))
    IN  FilterSeq(words, {term \in Range(words) : Len(term) > 1})

\* what one term adds to the score of an item
TermScore(item, term) ==
      (IF Includes(ToLowerCase(item.title), term) THEN TITLE_WEIGHT ELSE 0)
    + (IF \E k \in 1..Len(item.tags) : Includes(ToLowerCase(item.tags[k]), term)
       THEN TAG_WEIGHT ELSE 0)
    + (IF Includes(ToLowerCase(item.content), term) THEN CONTENT_WEIGHT ELSE 0)

RECURSIVE SumTermScores(_, _)
SumTermScores(item, terms) ==
    IF terms = <<>> THEN 0
    ELSE TermScore(item, Head(terms)) + SumTermScores(item, Tail(terms))

\* the .map callback without the bonus for the target corpus
ItemScoreTermsOnly(item, query_text, target) ==
      SumTermScores(item, QueryTerms(query_text))
    + (IF item.parent_title # "" /\ Includes(ToLowerCase(item.parent_title), ToLowerCase(query_text))
       THEN PARENT_TITLE_BONUS ELSE 0)

\* the body of the .map callback
ItemScore(item, query_text, target) ==
      SumTermScores(item, QueryTerms(query_text))
    + (IF item.parent_title # "" /\ Includes(ToLowerCase(item.parent_title), ToLowerCase(query_text))
       THEN PARENT_TITLE_BONUS ELSE 0)
    + (IF item.dataSource = target THEN DATA_SOURCE_BONUS ELSE 0)

\* a first .filter that lets every item through
PassesAnySource(item, target) == TRUE

\* the first .filter: items of another corpus are left out once a target is resolved
PassesSourceFilter(item, target) == target = UNDEFINED \/ item.dataSource = target

\* a comparator that sees the same score everywhere
ScoreIgnored(scoredItem) == 0

ScoreOf(scoredItem) == scoredItem.score

\* scoredResults: filter, map, filter, sort; pos is the index in the collection
ScoredResults(kb, query_text, target) ==
    LET indexed == [i \in 1..Len(kb) |-> [item |-> kb[i], pos |-> i]]
        inSource == FilterSeq(indexed, {e \in Range(indexed) :
                                           PassesSourceFilter(e.item, target)})
        scored == [i \in 1..Len(inSource) |->
                     [item |-> inSource[i].item, pos |-> inSource[i].pos,
                      score |-> ItemScore(inSource[i].item, query_text, target)]]
        positive == FilterSeq(scored, {scoredItem \in Range(scored) : scoredItem.score > 0})
    IN  StableSortDesc(positive, [i \in 1..Len(positive) |-> ScoreOf(positive[i])])

-----------------------------------------------------------------------------
(* Node's path module (POSIX)                                              *)

PATH_SEP == "/"

RECURSIVE JoinPath(_)
JoinPath(parts) ==
    IF parts = <<>> THEN ""
    ELSE IF Len(parts) = 1 THEN parts[1]
    ELSE parts[1] \o PATH_SEP \o JoinPath(Tail(parts))

\* path.basename(p): the last non-empty segment
Basename(p) ==
    LET segments == Split(p, PATH_SEP)
        parts == FilterSeq(segments, {part \in Range(segments) : part # ""})
    IN  IF parts = <<>> THEN "" ELSE parts[Len(parts)]

\* path.extname(p): from the last "." of the basename, unless that is its first character
Extname(p) ==
    LET base == Basename(p)
        dots == {i \in 1..Len(base) : CharAt(base, i) = "."}
        last == CHOOSE i \in dots : \A j \in dots : j <= i
    IN  IF dots = {} \/ last = 1 THEN "" ELSE SubSeq(base, last, Len(base))

\* path.basename(p, ext)
BasenameWithout(p, ext) ==
    LET base == Basename(p)
    IN  IF ext # "" /\ Len(ext) < Len(base)
           /\ SubSeq(base, Len(base) - Len(ext) + 1, Len(base)) = ext
        THEN SubSeq(base, 1, Len(base) - Len(ext))
        ELSE base

RECURSIVE CommonPrefixLen(_, _)
CommonPrefixLen(a, b) ==
    IF a = <<>> \/ b = <<>> \/ Head(a) # Head(b) THEN 0
    ELSE 1 + CommonPrefixLen(Tail(a), Tail(b))

\* path.relative(from, to) for two relative paths: both are resolved against
\* the same working directory, the common leading segments are dropped and
\* every remaining segment of from becomes ".."
Relative(from, to) ==
    LET fromParts == Split(from, PATH_SEP)
        toParts == Split(to, PATH_SEP)
        f == FilterSeq(fromParts, {part \in Range(fromParts) : part # ""})
        t == FilterSeq(toParts, {part \in Range(toParts) : part # ""})
        n == CommonPrefixLen(f, t)
    IN  JoinPath([i \in 1..(Len(f) - n) |-> ".."] \o SubSeq(t, n + 1, Len(t)))

-----------------------------------------------------------------------------
(* github_doc_service.ts: configuration and extractTagsFromPath            *)

EXPRESS_DOCS_REPO_BASE_PATH == "src/pages"
SWC_DOCS_PACKAGES_PATH == "packages"

\* A front-matter value that is a YAML number and not a string is written with
\* a leading "#" (a plain YAML scalar cannot begin with "#", so no string of
\* the modelled documents does); String(v) gives its digits.
IsString(v) == ~StartsWith(v, "#")
StringOf(v) == IF IsString(v) THEN v ELSE SubSeq(v, 2, Len(v))

\* filePathWithinBase.split(path.sep).map(part => part.toLowerCase())
PathParts(filePathWithinBase) ==
    LET rawParts == Split(filePathWithinBase, PATH_SEP)
    IN  [i \in 1..Len(rawParts) |-> ToLowerCase(rawParts[i])]

\* path.basename(filePathWithinBase, path.extname(filePathWithinBase)).toLowerCase()
PathFilename(filePathWithinBase) ==
    ToLowerCase(BasenameWithout(filePathWithinBase, Extname(filePathWithinBase)))

\* the tags before the branch on the corpus: the directories and the filename
DirectoryTags(parts, filename) ==
    SubSeq(parts, 1, Len(parts) - 1) \o (IF filename = "index" THEN <<>> ELSE <<filename>>)

\* the branch for spectrum_web_components
ComponentTags(parts, filename) ==
    IF filename = "readme" /\ Len(parts) >= 2 /\ parts[1] = "packages"
    THEN <<parts[2]>>
    ELSE LET filtered ==
                 FilterSeq(parts, {p \in Range(parts) :
                                      p \notin {"packages", "stories", "src", "docs", "test"}})
             withComponent ==
                 IF Len(parts) >= 2 /\ parts[1] = "packages" /\ parts[2] \notin Range(filtered)
                 THEN <<parts[2]>> \o filtered ELSE filtered
         IN  IF filename # "index" /\ filename # "readme"
                /\ filename \notin Range(withComponent)
             THEN Append(withComponent, filename) ELSE withComponent

\* the final tags.filter
MeaningfulTags(tags) ==
    FilterSeq(tags, {tag \in Range(tags) :
                        /\ tag # ""
                        /\ tag \notin {"src", "pages", "index", ""}
                        /\ ~StartsWith(tag, "_")})

extractTagsFromPath(filePathWithinBase, dataSource) ==
    MeaningfulTags(IF dataSource = SPECTRUM_WEB_COMPONENTS
                   THEN ComponentTags(PathParts(filePathWithinBase),
                                      PathFilename(filePathWithinBase))
                   ELSE DirectoryTags(PathParts(filePathWithinBase),
                                      PathFilename(filePathWithinBase)))

-----------------------------------------------------------------------------
(* github_doc_service.ts: tokensToMarkdown, tokensToPlainText              *)

\* A block token of marked.lexer: type "heading" (depth 1..6), "paragraph",
\* "html" or "space"; text is the inline source, raw the source of the block.
Heading(depth, text) ==
    [type |-> "heading", depth |-> depth, text |-> text,
     raw |-> SubSeq("######", 1, depth) \o " " \o text \o "\n"]
Paragraph(text) == [type |-> "paragraph", depth |-> 0, text |-> text, raw |-> text \o "\n"]
Html(raw) == [type |-> "html", depth |-> 0, text |-> raw, raw |-> raw \o "\n"]
Space == [type |-> "space", depth |-> 0, text |-> "", raw |-> "\n"]

RECURSIVE tokensToMarkdown(_)
tokensToMarkdown(tokensArray) ==
    IF tokensArray = <<>> THEN ""
    ELSE Head(tokensArray).raw \o tokensToMarkdown(Tail(tokensArray))

\* The grave accent that delimits a code span cannot be written inside a TLA+
\* string; the documents of the model write it as "^".
BACKTICK == "^"

\* s.replace(/BACKTICK/g, '')
RECURSIVE StripBackticks(_)
StripBackticks(s) ==
    IF Len(s) = 0 THEN ""
    ELSE (IF CharAt(s, 1) = BACKTICK THEN "" ELSE CharAt(s, 1))
         \o StripBackticks(SubSeq(s, 2, Len(s)))

\* the codespan renderer unwraps a code span to its text; the inline text of
\* the modelled documents has no other markup
RenderInline(text) == StripBackticks(text)

\* the renderer callbacks for block tokens
RenderToken(token) ==
    CASE token.type = "heading"   -> RenderInline(token.text) \o "\n\n"
      [] token.type = "paragraph" -> RenderInline(token.text) \o "\n"
      [] token.type = "html"      -> ""
      [] OTHER                    -> ""

RECURSIVE RenderTokens(_)
RenderTokens(tokensArray) ==
    IF tokensArray = <<>> THEN ""
    ELSE RenderToken(Head(tokensArray)) \o RenderTokens(Tail(tokensArray))

\* plainText.replace(/\n\s*\n/g, '\n\n'): from a newline, the longest run of
\* whitespace that ends in a newline becomes one blank line
RECURSIVE CollapseBlankLines(_)
CollapseBlankLines(s) ==
    IF Len(s) = 0 THEN ""
    ELSE IF CharAt(s, 1) = "\n"
         THEN LET ends == {j \in 2..Len(s) :
                              /\ CharAt(s, j) = "\n"
                              /\ \A k \in 2..j : IsWhitespace(CharAt(s, k))}
              IN  IF ends = {} THEN "\n" \o CollapseBlankLines(SubSeq(s, 2, Len(s)))
                  ELSE LET last == CHOOSE j \in ends : \A k \in ends : k <= j
                       IN  "\n\n" \o CollapseBlankLines(SubSeq(s, last + 1, Len(s)))
         ELSE CharAt(s, 1) \o CollapseBlankLines(SubSeq(s, 2, Len(s)))

tokensToPlainText(tokensArray) ==
    IF tokensArray = <<>> THEN ""
    ELSE Trim(CollapseBlankLines(RenderTokens(tokensArray)))

-----------------------------------------------------------------------------
(* github_doc_service.ts: parseFileContentToMCPItems                       *)

\* /\b(w1|w2|...)\b/i.test(s): one of the words occurs in s with no word
\* character right before it and none right after it
MatchesWord(s, words) ==
    LET lower == ToLowerCase(s)
    IN  \E w \in words : \E i \in 1..(Len(lower) - Len(w) + 1) :
            /\ SubSeq(lower, i, i + Len(w) - 1) = w
            /\ (i = 1 \/ ~IsWordChar(CharAt(lower, i - 1)))
            /\ (i + Len(w) > Len(lower) \/ ~IsWordChar(CharAt(lower, i + Len(w))))

\* /\w+\s*\(.*\)/.test(s): a word character, optional whitespace, "(" and a
\* later ")"
LooksLikeCall(s) ==
    \E w \in 1..Len(s) : \E open \in (w + 1)..Len(s) : \E close \in (open + 1)..Len(s) :
        /\ IsWordChar(CharAt(s, w))
        /\ \A k \in (w + 1)..(open - 1) : IsWhitespace(CharAt(s, k))
        /\ CharAt(s, open) = "("
        /\ CharAt(s, close) = ")"

\* s.split(/\s|:/)[0]
RECURSIVE FirstPiece(_)
FirstPiece(s) ==
    IF Len(s) = 0 \/ IsWhitespace(CharAt(s, 1)) \/ CharAt(s, 1) = ":" THEN ""
    ELSE CharAt(s, 1) \o FirstPiece(SubSeq(s, 2, Len(s)))

\* /^[a-zA-Z_][\w\.]*(\s*:.*)?$/.test(piece), for a piece that holds neither
\* whitespace nor ":" (so the optional group matches nothing)
LooksLikeIdentifier(piece) ==
    /\ Len(piece) > 0
    /\ (CharAt(piece, 1) \in UpperSet \/ CharAt(piece, 1) \in LowerSet
        \/ CharAt(piece, 1) = "_")
    /\ \A k \in 2..Len(piece) : IsWordChar(CharAt(piece, k)) \/ CharAt(piece, k) = "."

\* a kind that follows the depth of the heading alone
SectionTypeByDepth(depth, currentSectionTitle) ==
    IF depth = 2 THEN "major_section" ELSE "minor_section"

\* a kind assignment whose patterns for depth 2 have no word boundaries
SectionTypeUnanchored(depth, currentSectionTitle) ==
    IF depth = 3 THEN SectionTypeByDepth(3, currentSectionTitle)
    ELSE IF \E w \in {"method", "function"} : Includes(ToLowerCase(currentSectionTitle), w)
    THEN "class_methods_group"
    ELSE IF \E w \in {"propertie", "attribute", "field", "api"} :
                Includes(ToLowerCase(currentSectionTitle), w)
    THEN "class_properties_group"
    ELSE IF Includes(ToLowerCase(currentSectionTitle), "event") THEN "class_events_group"
    ELSE IF \E w \in {"exampls", "examples", "usage"} :
                Includes(ToLowerCase(currentSectionTitle), w)
    THEN "examples_section"
    ELSE "major_section"

\* the kind of the section a heading of this depth and title opens
SectionType(depth, currentSectionTitle) ==
    IF depth = 2
    THEN IF MatchesWord(currentSectionTitle, {"method", "methods", "function", "functions"})
         THEN "class_methods_group"
         ELSE IF MatchesWord(currentSectionTitle,
                     {"propertie", "properties", "attribute", "attributes",
                      "field", "fields", "api"})
         THEN "class_properties_group"
         ELSE IF MatchesWord(currentSectionTitle, {"event", "events"})
         THEN "class_events_group"
         ELSE IF MatchesWord(currentSectionTitle, {"exampls", "examples", "usage"})
         THEN "examples_section"
         ELSE "major_section"
    ELSE IF LooksLikeCall(currentSectionTitle) THEN "class_method_detail"
         ELSE IF LooksLikeIdentifier(FirstPiece(currentSectionTitle))
         THEN "class_property_detail"
         ELSE "minor_section"

\* currentSectionTitle.toLowerCase().split(/\s+/).filter(t => t.length > 1 && no backtick)
SectionTags(currentSectionTitle) ==
    LET words == SplitWhitespace(ToLowerCase(currentSectionTitle))
    IN  FilterSeq(words, {t \in Range(words) : Len(t) > 1 /\ ~Includes(t, BACKTICK)})

\* results.push of an item, guarded by content.trim()
PushItem(type, title, content, tags, parent_title, dataSource) ==
    IF Trim(content) # ""
    THEN <<Item(type, title, content, tags, parent_title, dataSource)>>
    ELSE <<>>

\* the push of a section, guarded by currentSectionTokens.length > 0 &&
\* currentSectionTitle
SectionItems(currentSectionTokens, currentSectionTitle, sectionType, baseTitle, baseTags, dataSource) ==
    IF currentSectionTokens # <<>> /\ currentSectionTitle # ""
    THEN PushItem(sectionType, baseTitle \o " - " \o currentSectionTitle,
                  tokensToPlainText(currentSectionTokens),
                  baseTags \o SectionTags(currentSectionTitle), baseTitle, dataSource)
    ELSE <<>>

\* the for loop from firstH2Index on, and the push after it
RECURSIVE SectionLoop(_, _, _, _, _, _, _, _)
SectionLoop(tokens, i, currentSectionTokens, currentSectionTitle, sectionType, baseTitle, baseTags, dataSource) ==
    IF i > Len(tokens)
    THEN SectionItems(currentSectionTokens, currentSectionTitle, sectionType,
                      baseTitle, baseTags, dataSource)
    ELSE IF tokens[i].type = "heading" /\ tokens[i].depth \in {2, 3}
         THEN SectionItems(currentSectionTokens, currentSectionTitle, sectionType,
                           baseTitle, baseTags, dataSource)
              \o SectionLoop(tokens, i + 1, <<tokens[i]>>, StripBackticks(tokens[i].text),
                             SectionType(tokens[i].depth, StripBackticks(tokens[i].text)),
                             baseTitle, baseTags, dataSource)
         ELSE SectionLoop(tokens, i + 1, Append(currentSectionTokens, tokens[i]),
                          currentSectionTitle, sectionType, baseTitle, baseTags, dataSource)

\* frontmatter.tags || extractTagsFromPath(...), then made an array as every
\* push does: Array.isArray(baseTags) ? baseTags : [String(baseTags)]
BaseTags(fileContent) ==
    LET repoBasePathForTags ==
            IF fileContent.dataSource = EXPRESS_SDK
            THEN EXPRESS_DOCS_REPO_BASE_PATH ELSE SWC_DOCS_PACKAGES_PATH
        pathWithinRelevantBase ==
            IF StartsWith(fileContent.path, repoBasePathForTags)
            THEN Relative(repoBasePathForTags, fileContent.path)
            ELSE fileContent.path
        tags == fileContent.frontmatter.tags
    IN  CASE tags.kind = "absent" -> extractTagsFromPath(pathWithinRelevantBase,
                                                       fileContent.dataSource)
          [] tags.kind = "array"  -> tags.value
          [] OTHER                -> <<StringOf(tags.value[1])>>

BaseTitle(fileContent) ==
    IF fileContent.frontmatter.title # "" THEN fileContent.frontmatter.title
    ELSE IF fileContent.frontmatter.name # "" THEN fileContent.frontmatter.name
    ELSE BasenameWithout(fileContent.path, Extname(fileContent.path))

\* a search for the first heading of depth 2 that never finds one
NoSecondLevelHeading(tokens) == 0

\* tokens.findIndex(heading of depth 2), 0 when there is none
FirstH2Index(tokens) ==
    LET hits == {i \in 1..Len(tokens) : tokens[i].type = "heading" /\ tokens[i].depth = 2}
    IN  IF hits = {} THEN 0 ELSE CHOOSE i \in hits : \A j \in hits : i <= j

\* frontmatter.type || computed
TypeOr(frontmatter, computed) == IF frontmatter.type # "" THEN frontmatter.type ELSE computed

\* the whole file as one item
WholePage(fileContent, type, baseTitle, baseTags) ==
    PushItem(TypeOr(fileContent.frontmatter, type), baseTitle,
             tokensToPlainText(fileContent.tokens), baseTags, baseTitle,
             fileContent.dataSource)

\* the item of the tokens before the first heading of depth 2
Overview(fileContent, firstH2Index, baseTitle, baseTags) ==
    PushItem(TypeOr(fileContent.frontmatter, "page_overview"), baseTitle \o " - Overview",
             tokensToPlainText(SubSeq(fileContent.tokens, 1, firstH2Index - 1)),
             Append(baseTags, "overview"), baseTitle, fileContent.dataSource)

\* results.length === 0 && tokens.length > 0: the whole file after all
SectionsOrFallback(sections, fileContent, baseTitle, baseTags) ==
    IF sections = <<>> /\ fileContent.tokens # <<>>
    THEN WholePage(fileContent, "documentation_page", baseTitle, baseTags)
    ELSE sections

\* the body of parseFileContentToMCPItems once its constants are computed
Segment(fileContent, baseTitle, baseTags, firstH2Index, basename) ==
    LET treatAsSinglePage ==
            fileContent.dataSource = SPECTRUM_WEB_COMPONENTS /\ basename = "readme.md"
    IN  IF firstH2Index = 0 \/ basename = "index.md" \/ treatAsSinglePage
        THEN WholePage(fileContent,
                       IF treatAsSinglePage THEN "spectrum_component_overview"
                       ELSE IF basename = "index.md" THEN "category_overview"
                       ELSE "documentation_page",
                       baseTitle, baseTags)
        ELSE SectionsOrFallback(
                 Overview(fileContent, firstH2Index, baseTitle, baseTags)
                 \o SectionLoop(fileContent.tokens, firstH2Index, <<>>, "",
                                "documentation_section", baseTitle, baseTags,
                                fileContent.dataSource),
                 fileContent, baseTitle, baseTags)

\* results.filter(item => item.content.trim() !== '')
WithContent(results) ==
    FilterSeq(results, {item \in Range(results) : Trim(item.content) # ""})

parseFileContentToMCPItems(fileContent) ==
    WithContent(Segment(fileContent, BaseTitle(fileContent), BaseTags(fileContent),
                        FirstH2Index(fileContent.tokens),
                        ToLowerCase(Basename(fileContent.path))))

-----------------------------------------------------------------------------
(* The remote repositories: the files a code search can return and what a   *)
(* content request for each of them yields                                  *)

NoTags == [kind |-> "absent", value |-> <<>>]
TagArray(tags) == [kind |-> "array", value |-> tags]
TagScalar(tag) == [kind |-> "scalar", value |-> <<tag>>]
FrontMatter(title, name, type, tags) ==
    [title |-> title, name |-> name, type |-> type, tags |-> tags]

ButtonsTokens ==
    <<Heading(1, "Buttons"), Paragraph("Intro text."),
      Heading(2, "Usage"), Paragraph("How to use."),
      Heading(2, "Methods"),
      Heading(3, "press()"), Paragraph("Does a thing.")>>

\* path |-> the front-matter and block tokens of the file at that path
RemoteFile(path) ==
    CASE path = "src/pages/guides/buttons.md" ->
            [frontmatter |-> FrontMatter("Buttons", "", "", NoTags), tokens |-> ButtonsTokens]
      [] path = "src/pages/guides/action-button.md" ->
            [frontmatter |-> FrontMatter("", "Action Button", "", TagScalar("button")),
             tokens |-> <<Paragraph("An action button."),
                          Heading(2, "Properties"), Paragraph("The label."),
                          Heading(3, "label"), Paragraph("Text of the button."),
                          Heading(3, "Notes on size"), Html("<br/>"), Paragraph("Sizes.")>>]
      [] path = "src/pages/references/button-group.md" ->
            [frontmatter |-> FrontMatter("", "", "guide", NoTags),
             tokens |-> <<Paragraph("Groups of buttons."),
                          Heading(2, "Examples"), Paragraph("A toolbar."),
                          Heading(2, "Events"), Paragraph("change"),
                          Heading(2, "Layout"), Space, Paragraph("Rows.")>>]
      [] path = "src/pages/references/index.md" ->
            [frontmatter |-> FrontMatter("References", "", "", NoTags),
             tokens |-> <<Heading(1, "References"), Paragraph("All pages."),
                          Heading(2, "Usage"), Paragraph("Pick one.")>>]
      [] path = "src/pages/guides/_drafts/release.md" ->
            [frontmatter |-> FrontMatter("Release", "", "", TagArray(<<"#2024", "usage">>)),
             tokens |-> <<Paragraph("Release notes."),
                          Heading(2, "Usage"), Paragraph("Upgrade steps.")>>]
      [] path = "packages/button/README.md" ->
            [frontmatter |-> FrontMatter("", "", "", NoTags),
             tokens |-> <<Heading(1, "sp-button"), Paragraph("A spectrum button."),
                          Heading(2, "Usage"), Paragraph("Import it.")>>]
      [] path = "packages/tabs/src/tabs.md" ->
            [frontmatter |-> FrontMatter("Tabs", "", "", NoTags),
             tokens |-> <<Paragraph("sp-tabs shows tabs."),
                          Heading(2, "API"), Paragraph("Attributes."),
                          Heading(3, "selected: string"), Paragraph("The tab.")>>]
      [] OTHER ->
            [frontmatter |-> FrontMatter("", "", "", NoTags),
             tokens |-> <<Paragraph("Empty")>>]

\* A search hit as the API lists it: a path and a relevance score, which the
\* response may leave out (hasScore = FALSE)
Hit(path, hasScore, score) == [path |-> path, hasScore |-> hasScore, score |-> score]

\* what a code search of each corpus can list, in the order of the response
ExpressHits ==
    <<Hit("src/pages/guides/buttons.md", TRUE, 5),
      Hit("src/pages/guides/action-button.md", TRUE, 7),
      Hit("src/pages/references/button-group.md", TRUE, 6),
      Hit("src/pages/references/index.md", FALSE, 0),
      Hit("src/pages/guides/_drafts/release.md", TRUE, 9)>>

SwcHits ==
    <<Hit("packages/tabs/src/tabs.md", FALSE, 0),
      Hit("packages/button/README.md", TRUE, 8)>>

CorpusHits(source) == IF source = EXPRESS_SDK THEN ExpressHits ELSE SwcHits

-----------------------------------------------------------------------------
(* The persisted index: what knowledge_base.json can hold                  *)

ButtonItem ==
    Item("spectrum_component_overview", "Button", "Click handling...",
         <<"button", "spectrum">>, "", SPECTRUM_WEB_COMPONENTS)

\* the one-item collection of the scoring scenario
KbButton == <<ButtonItem>>

\* a collection of both corpora, with more than MAX_RESULTS items and with
\* items that score alike
KbDocs ==
    <<Item("page_overview", "Tabs - Overview", "Tabs and a button.", <<"tabs", "overview">>,
           "Tabs", SPECTRUM_WEB_COMPONENTS),
      Item("examples_section", "Export - Usage", "Usage of the export API.",
           <<"export", "usage">>, "Export", EXPRESS_SDK),
      ButtonItem,
      Item("examples_section", "Button - Usage", "Use a button.", <<"button", "usage">>,
           "Button", SPECTRUM_WEB_COMPONENTS),
      Item("documentation_page", "Dialog API", "Show a dialog.", <<"dialog", "api">>,
           "Dialog API", EXPRESS_SDK),
      Item("class_method_detail", "Dialog API - showModalDialog()", "Opens a dialog button.",
           <<"dialog", "api">>, "Dialog API", EXPRESS_SDK),
      Item("major_section", "Express Add-on - Setup", "Install the CLI.", <<"addon", "setup">>,
           "Express Add-on", EXPRESS_SDK),
      Item("page_overview", "Action Button - Overview", "An action button.",
           <<"action-button", "overview">>, "Action Button", SPECTRUM_WEB_COMPONENTS),
      Item("minor_section", "Action Button - Sizes", "Sizes.", <<"action-button", "sizes">>,
           "Action Button", SPECTRUM_WEB_COMPONENTS),
      Item("class_events_group", "Tabs - Events", "change on the button row.",
           <<"tabs", "events">>, "Tabs", SPECTRUM_WEB_COMPONENTS),
      Item("code_example", "Export sample", "A button that exports.", <<"export", "sample">>,
           "", "code_sample"),
      Item("examples_section", "Picker - Usage", "Use a picker, not a button.",
           <<"picker", "usage">>, "Picker", SPECTRUM_WEB_COMPONENTS),
      Item("class_properties_group", "Button - Properties", "variant", <<"button", "properties">>,
           "Button", SPECTRUM_WEB_COMPONENTS),
      Item("major_section", "Storage - Limits", "Quota for the Button usage log.",
           <<"storage", "limits">>, "Storage", EXPRESS_SDK)>>

\* knowledge_base.json: absent, or a JSON list of items
KbFile(exists, items) == [exists |-> exists, json |-> "list", items |-> items]

\* knowledge_base.json holding text that JSON.parse rejects, and holding a
\* JSON object in place of the list
KbFileNotJson == [exists |-> TRUE, json |-> "invalid", items |-> <<>>]
KbFileJsonObject == [exists |-> TRUE, json |-> "object", items |-> <<>>]

KbFiles ==
    {KbFile(FALSE, <<>>), KbFile(TRUE, KbButton), KbFile(TRUE, KbDocs),
     KbFileNotJson, KbFileJsonObject}

\* the value of LOCAL_KNOWLEDGE_BASE that is an object and no array: it has
\* no length and no filter method
JsonObjectValue == <<Item("#object", "", "", <<>>, "", "")>>
IsArray(kb) == kb # JsonObjectValue

\* kb.length, -1 standing for undefined
Length(kb) == IF IsArray(kb) THEN Len(kb) ELSE -1

\* a load that leaves the collection with the first item of the file only
loadLocalKnowledgeBasePartial(file) == SliceTo(file.items, 1)

\* the assignment loadLocalKnowledgeBase makes to LOCAL_KNOWLEDGE_BASE: the
\* parsed value as it is (the cast checks nothing), [] when the file is
\* absent or JSON.parse throws
loadLocalKnowledgeBase(file) ==
    IF ~file.exists \/ file.json = "invalid" THEN <<>>
    ELSE IF file.json = "object" THEN JsonObjectValue
    ELSE file.items

\* the query texts and hints a client sends
QueryTexts == {"spectrum button click", "Button usage", "sp-tabs api"}

-----------------------------------------------------------------------------
(* GitHubDocService.searchFiles                                            *)

SEARCH_PER_PAGE_ALL == 2
SEARCH_PER_PAGE_SINGLE == 5

Corpora == <<EXPRESS_SDK, SPECTRUM_WEB_COMPONENTS>>

\* the corpora a search request is issued for
Targeted(targetSource, source) == targetSource = ALL \/ targetSource = source

PerPage(targetSource) ==
    IF targetSource = ALL THEN SEARCH_PER_PAGE_ALL ELSE SEARCH_PER_PAGE_SINGLE

\* the state of one search promise: not issued, pending, settled with
\* validatedData null (transport error or invalid shape) or with its items
NotIssued == [state |-> "none", items |-> <<>>]
Pending == [state |-> "pending", items |-> <<>>]
Failed(why) == [state |-> why, items |-> <<>>]
Validated(items) == [state |-> "ok", items |-> items]

StartSearches(targetSource) ==
    [source \in Range(Corpora) |->
        IF Targeted(targetSource, source) THEN Pending ELSE NotIssued]

\* what the .then / .catch of one search promise resolves to
SearchOutcome(source, outcome, n) ==
    IF outcome = "ok" THEN Validated(SliceTo(CorpusHits(source), n)) ELSE Failed(outcome)

EffectiveScore(ref) == IF ref.hasScore THEN ref.score ELSE 0

\* the loop over the responses of Promise.all, in the order the promises were
\* pushed, and the final sort
RECURSIVE MergeResponses(_, _)
MergeResponses(search, sources) ==
    IF sources = <<>> THEN <<>>
    ELSE LET source == Head(sources)
             items == IF search[source].state = "ok" THEN search[source].items ELSE <<>>
         IN  [i \in 1..Len(items) |->
                 [path |-> items[i].path, hasScore |-> items[i].hasScore,
                  score |-> items[i].score, repo |-> source]]
             \o MergeResponses(search, Tail(sources))

\* a searchFiles where one rejected request rejects the whole Promise.all
searchFilesAllOrNothing(search) ==
    IF \E source \in Range(Corpora) : search[source].state \in {"invalid", "error"}
    THEN <<>>
    ELSE LET results == MergeResponses(search, Corpora)
         IN  StableSortDesc(results, [i \in 1..Len(results) |-> EffectiveScore(results[i])])

\* a searchFiles that returns the merged responses as they came
searchFilesUnsorted(search) == MergeResponses(search, Corpora)

searchFiles(search) ==
    LET results == MergeResponses(search, Corpora)
    IN  StableSortDesc(results, [i \in 1..Len(results) |-> EffectiveScore(results[i])])

-----------------------------------------------------------------------------
(* queryDocumentation                                                      *)

CONFIDENCE_DEFAULT == 20
CONFIDENCE_GITHUB_RESULTS == 70
CONFIDENCE_GITHUB_FILTERED == 35
CONFIDENCE_LOCAL_RESULTS == 80
CONFIDENCE_LOCAL_NO_MATCH == 30
FETCH_LIMIT_ALL == 2
FETCH_LIMIT_SINGLE == 3

\* the github branch leaving the empty search to the generic placeholder
GenericNoMatchItem(query_text) ==
    Item("no_match", "Query Not Matched",
         "No information found for '" \o query_text \o "' in github mode.",
         <<"no_match">>, "", "unknown")

NoMatchGithubItem(query_text) ==
    Item("no_match_github", "No Files Found on GitHub",
         "GitHub search found no direct file matches for '" \o query_text \o "'.",
         <<"error">>, "", "unknown")

ErrorGithubItem ==
    Item("error_github", "GitHub Query Error",
         "An error occurred: tag.includes is not a function", <<"error">>, "", "unknown")

ErrorInfoItem ==
    Item("error_info", "Local Knowledge Base Empty", "Local KB is empty.",
         <<"error", "kb">>, "", "unknown")

NoMatchItem(query_text, mode) ==
    Item("no_match", "Query Not Matched",
         "No information found for '" \o query_text \o "' in " \o mode \o " mode.",
         <<"no_match">>, "", "unknown")

IsPlaceholder(r) == StartsWith(r.type, "error") \/ StartsWith(r.type, "no_match")

\* a fetch loop cut at the cap of the search requests
ResultsToFetchSearchCap(searchResults, effectiveTargetSource) ==
    SliceTo(searchResults, PerPage(effectiveTargetSource))

\* searchResults.slice(0, effectiveTargetSource === 'all' ? 2 : 3)
ResultsToFetch(searchResults, effectiveTargetSource) ==
    SliceTo(searchResults, IF effectiveTargetSource = ALL THEN FETCH_LIMIT_ALL
                           ELSE FETCH_LIMIT_SINGLE)

\* query_text.toLowerCase().split(" ").filter(t => t.length > 2)
QueryTermsForFilter(query_text) ==
    LET words == Split(ToLowerCase(query_text), " ")
    IN  FilterSeq(words, {term \in Range(words) : Len(term) > 2})

\* r.tags.some(tag => tag.includes(term)): "hit", "miss", or "throw" when a tag
\* that is not a string is reached before a tag that holds the term
RECURSIVE TagsHaveTerm(_, _)
TagsHaveTerm(tags, term) ==
    IF tags = <<>> THEN "miss"
    ELSE IF ~IsString(Head(tags)) THEN "throw"
    ELSE IF Includes(Head(tags), term) THEN "hit"
    ELSE TagsHaveTerm(Tail(tags), term)

\* queryTermsForFilter.some(term => title has term || tags have term)
RECURSIVE FilterVerdict(_, _)
FilterVerdict(r, terms) ==
    IF terms = <<>> THEN "miss"
    ELSE IF Includes(ToLowerCase(r.title), Head(terms)) THEN "hit"
    ELSE LET inTags == TagsHaveTerm(r.tags, Head(terms))
         IN  IF inTags = "miss" THEN FilterVerdict(r, Tail(terms)) ELSE inTags

\* the post-filter throws when the callback throws on some item
PostFilterThrows(results, query_text) ==
    \E terms \in {QueryTermsForFilter(query_text)} :
        \E i \in 1..Len(results) : FilterVerdict(results[i], terms) = "throw"

PostFilter(results, query_text) ==
    LET terms == QueryTermsForFilter(query_text)
    IN  FilterSeq(results, {r \in Range(results) : FilterVerdict(r, terms) = "hit"})

\* a github branch that reports the same confidence whatever the post-filter left
AfterFetchesOneConfidence(results, query_text) ==
    IF PostFilterThrows(results, query_text)
    THEN [results |-> Append(results, ErrorGithubItem), confidence |-> CONFIDENCE_DEFAULT,
          threw |-> TRUE]
    ELSE [results |-> PostFilter(results, query_text),
          confidence |-> CONFIDENCE_GITHUB_RESULTS, threw |-> FALSE]

\* the github branch from the post-filter on, with its catch block:
\* the results and the confidence score it leaves
AfterFetches(results, query_text) ==
    IF PostFilterThrows(results, query_text)
    THEN [results |-> Append(results, ErrorGithubItem), confidence |-> CONFIDENCE_DEFAULT,
          threw |-> TRUE]
    ELSE LET filtered == PostFilter(results, query_text)
         IN  [results |-> filtered,
              confidence |-> IF Len(filtered) > 0 THEN CONFIDENCE_GITHUB_RESULTS
                             ELSE CONFIDENCE_GITHUB_FILTERED,
              threw |-> FALSE]

\* the scoring part of the local branch (index.ts:241-273): the results and the
\* confidence score it leaves, with the score and the collection index of
\* every result
ScoreCollection(kb, query_text, target_source_hint) ==
    LET target == EffectiveTargetSourceLocal(target_source_hint, query_text)
        top == SliceTo(ScoredResults(kb, query_text, target), MAX_RESULTS)
    IN  [results |-> [i \in 1..Len(top) |-> top[i].item],
         confidence |-> IF Len(top) > 0 THEN CONFIDENCE_LOCAL_RESULTS
                        ELSE CONFIDENCE_LOCAL_NO_MATCH,
         scores |-> [i \in 1..Len(top) |-> top[i].score],
         positions |-> [i \in 1..Len(top) |-> top[i].pos],
         thrown |-> FALSE]

\* a local branch without the test for the empty collection
LocalBranchUnguarded(kb, query_text, target_source_hint) ==
    ScoreCollection(kb, query_text, target_source_hint)

\* the local branch: the empty collection is answered with the error_info item
\* and the confidence left as it was set on entry, any other is scored;
\* thrown: LOCAL_KNOWLEDGE_BASE.filter is not a function, outside any try
LocalBranch(kb, query_text, target_source_hint) ==
    IF Length(kb) = 0
    THEN [results |-> <<ErrorInfoItem>>, confidence |-> CONFIDENCE_DEFAULT,
          scores |-> <<>>, positions |-> <<>>, thrown |-> FALSE]
    ELSE IF ~IsArray(kb)
    THEN [results |-> <<>>, confidence |-> CONFIDENCE_DEFAULT,
          scores |-> <<>>, positions |-> <<>>, thrown |-> TRUE]
    ELSE ScoreCollection(kb, query_text, target_source_hint)

\* a handler that returns the results of its branch as they are
KeepResults(results, query_text, mode) == results

\* results.length === 0 && !results.some(placeholder): push the no_match item
WithPlaceholder(results, query_text, mode) ==
    IF Len(results) = 0 /\ ~\E i \in 1..Len(results) : IsPlaceholder(results[i])
    THEN Append(results, NoMatchItem(query_text, mode))
    ELSE results

\* an output without the final slice
AllResults(results) == results

\* outputResult.results
OutputResults(results) == SliceTo(results, MAX_RESULTS)

\* the response assembled after both branches; found is the count the text
\* reports and listed the titles of the "## title" blocks the text holds
Response(results, confidence, query_text, mode) ==
    LET final == WithPlaceholder(results, query_text, mode)
    IN  [results |-> OutputResults(final), confidence_score |-> confidence,
         mode_used |-> mode, found |-> Len(final),
         listed |-> [i \in 1..Len(final) |-> final[i].title]]

-----------------------------------------------------------------------------
(* The server: state, tool handlers and their environment                  *)

NoResponse ==
    [results |-> <<>>, confidence_score |-> 0, mode_used |-> "", found |-> 0, listed |-> <<>>]

\* no file handed to parseFileContentToMCPItems yet
NoFileContent ==
    [path |-> "", dataSource |-> "", frontmatter |-> FrontMatter("", "", "", NoTags),
     tokens |-> <<>>]
IdleSegmenter == [called |-> FALSE, fileContent |-> NoFileContent, items |-> <<>>]

\* none of the other tool handlers is running
IdleTool ==
    [name |-> "", pc |-> "idle", feature |-> "", language |-> "", framework |-> "",
     mode |-> "", requested |-> FALSE, text |-> "", keywords |-> <<>>,
     current_mode |-> "", sample |-> <<>>]

\* a parseFileContentToMCPItems call and what it returned
Parsed(fileContent) ==
    [called |-> TRUE, fileContent |-> fileContent,
     items |-> parseFileContentToMCPItems(fileContent)]

\* no queryDocumentation call yet
IdleQuery ==
    [pc |-> "idle", query_text |-> "", hint |-> UNDEFINED, backend |-> "", target |-> "",
     search |-> StartSearches(""), searchResults |-> <<>>, fetches |-> <<>>,
     results |-> <<>>, threw |-> FALSE, scores |-> <<>>, positions |-> <<>>,
     response |-> NoResponse]

NoSet == [called |-> FALSE, mode |-> "", new_mode |-> "", status |-> "",
          wasEmpty |-> FALSE, loaded |-> FALSE]

\* at startup the mode comes from the environment and the file is loaded once
Init ==
    /\ currentKnowledgeMode \in availableKnowledgeModes
    /\ \E file \in KbFiles : LOCAL_KNOWLEDGE_BASE = loadLocalKnowledgeBase(file)
    /\ query = IdleQuery
    /\ lastSet = NoSet
    /\ segmenter = IdleSegmenter
    /\ GITHUB_TOKEN = TRUE
    /\ tool = IdleTool

\* the condition under which setKnowledgeSource calls loadLocalKnowledgeBase
ShouldLoad(mode, kb) == mode = MODE_LOCAL /\ Length(kb) = 0

\* the setKnowledgeSource handler; it has no await and runs in one step.
\* file is what knowledge_base.json holds when the handler reads it.
setKnowledgeSource(mode, file) ==
    /\ currentKnowledgeMode' = mode
    /\ LOCAL_KNOWLEDGE_BASE' =
           IF ShouldLoad(mode, LOCAL_KNOWLEDGE_BASE)
           THEN loadLocalKnowledgeBase(file) ELSE LOCAL_KNOWLEDGE_BASE
    /\ lastSet' = [called |-> TRUE, mode |-> mode, new_mode |-> mode, status |-> "success",
                   wasEmpty |-> Length(LOCAL_KNOWLEDGE_BASE) = 0,
                   loaded |-> ShouldLoad(mode, LOCAL_KNOWLEDGE_BASE)]
    /\ UNCHANGED <<query, segmenter, GITHUB_TOKEN, tool>>

\* the end of the handler: the response is assembled with the mode read then
Finish(q, results, confidence, threw) ==
    [q EXCEPT !.pc = "done", !.results = results, !.threw = threw,
              !.response = Response(results, confidence, q.query_text, currentKnowledgeMode)]

\* a dispatch that ignores the mode
DispatchGithub(mode) == MODE_GITHUB

\* the branch queryDocumentation takes on entry
Dispatch(mode) == mode

\* a queryDocumentation call arrives: the local branch runs to the end, the
\* github branch issues its search requests and suspends on them
queryDocumentation(query_text, target_source_hint) ==
    /\ query.pc = "idle"
    /\ LET q == [IdleQuery EXCEPT !.query_text = query_text, !.hint = target_source_hint,
                                  !.backend = Dispatch(currentKnowledgeMode)]
       IN  IF q.backend = MODE_GITHUB
           THEN LET target == EffectiveTargetSource(target_source_hint, query_text)
                IN  query' = [q EXCEPT !.pc = "searching", !.target = target,
                                       !.search = StartSearches(target)]
           ELSE LET local == LocalBranch(LOCAL_KNOWLEDGE_BASE, query_text, target_source_hint)
                IN  IF local.thrown
                    THEN query' = [q EXCEPT !.pc = "thrown"]
                    ELSE query' = Finish([q EXCEPT !.target = EffectiveTargetSourceLocal(
                                                        target_source_hint, query_text),
                                                  !.scores = local.scores,
                                                  !.positions = local.positions],
                                        local.results, local.confidence, FALSE)
    /\ UNCHANGED <<currentKnowledgeMode, LOCAL_KNOWLEDGE_BASE, lastSet, segmenter,
                   GITHUB_TOKEN, tool>>

\* one search request settles; when it is the last one, Promise.all resolves
\* and the handler goes on to the first content request, or to its end when
\* the search gave nothing
SearchResponse(source, outcome, n) ==
    /\ query.pc = "searching"
    /\ query.search[source].state = "pending"
    /\ n <= Min(PerPage(query.target), Len(CorpusHits(source)))
    /\ outcome # "ok" => n = 0
    /\ LET search == [query.search EXCEPT ![source] = SearchOutcome(source, outcome, n)]
           searchResults == searchFiles(search)
           q == [query EXCEPT !.search = search]
       IN  IF \E other \in Range(Corpora) : search[other].state = "pending"
           THEN query' = q
           ELSE IF Len(searchResults) > 0
           THEN query' = [q EXCEPT !.pc = "fetching", !.searchResults = searchResults,
                                   !.fetches = <<searchResults[1].path>>]
           ELSE query' = Finish([q EXCEPT !.searchResults = searchResults],
                                <<NoMatchGithubItem(query.query_text)>>,
                                CONFIDENCE_DEFAULT, FALSE)
    /\ UNCHANGED <<currentKnowledgeMode, LOCAL_KNOWLEDGE_BASE, lastSet, segmenter,
                   GITHUB_TOKEN, tool>>

\* getFileContent for a search result: the file, or null when the request
\* fails, the file is absent or the response has not the shape of a file
getFileContent(ref, found) ==
    IF found
    THEN <<[path |-> ref.path, dataSource |-> ref.repo,
            frontmatter |-> RemoteFile(ref.path).frontmatter,
            tokens |-> RemoteFile(ref.path).tokens]>>
    ELSE <<>>

\* the content request in flight settles: its items are pushed, and the loop
\* issues the next request or the handler runs to its end
FetchResponse(found) ==
    /\ query.pc = "fetching"
    /\ LET toFetch == ResultsToFetch(query.searchResults, query.target)
           i == Len(query.fetches)
           fileContent == getFileContent(toFetch[i], found)
           parsed == IF fileContent # <<>> THEN Parsed(fileContent[1]) ELSE segmenter
           results == IF fileContent # <<>> THEN query.results \o parsed.items
                      ELSE query.results
       IN  /\ segmenter' = parsed
           /\ IF i < Len(toFetch)
              THEN query' = [query EXCEPT !.results = results,
                                          !.fetches = Append(@, toFetch[i + 1].path)]
              ELSE LET after == AfterFetches(results, query.query_text)
                   IN  query' = Finish(query, after.results, after.confidence, after.threw)
    /\ UNCHANGED <<currentKnowledgeMode, LOCAL_KNOWLEDGE_BASE, lastSet, GITHUB_TOKEN, tool>>

\* the response goes back to the client and the handler is over
ReturnResponse ==
    /\ query.pc \in {"done", "thrown"}
    /\ query' = IdleQuery
    /\ segmenter' = IdleSegmenter
    /\ UNCHANGED <<currentKnowledgeMode, LOCAL_KNOWLEDGE_BASE, lastSet, GITHUB_TOKEN, tool>>

Next ==
    \/ \E mode \in availableKnowledgeModes, file \in KbFiles : setKnowledgeSource(mode, file)
    \/ \E query_text \in QueryTexts, hint \in TargetSourceHints :
           queryDocumentation(query_text, hint)
    \/ \E source \in Range(Corpora), outcome \in {"ok", "invalid", "error"},
          n \in 0..SEARCH_PER_PAGE_SINGLE :
           SearchResponse(source, outcome, n)
    \/ \E found \in BOOLEAN : FetchResponse(found)
    \/ ReturnResponse

Spec == Init /\ [][Next]_vars

-----------------------------------------------------------------------------
(* parseFileContentToMCPItems on its own: the service hands it any file a   *)
(* content request returned, so it is run here over a family of documents   *)

\* the longest token list of the enumerated documents
MaxTokens == 4

\* block tokens the enumerated documents are made of: headings of depth 2 and
\* 3, a heading with no text ("## " alone on its line), a paragraph, and an
\* html block, which renders to nothing
TokenAlphabet ==
    {Heading(2, "Usage"), Heading(2, ""), Heading(3, "press()"),
     Paragraph("Text."), Html("<br/>")}

\* a file as getFileContent returns it
FileContent(path, dataSource, frontmatter, tokens) ==
    [path |-> path, dataSource |-> dataSource, frontmatter |-> frontmatter, tokens |-> tokens]

\* every token list, as an ordinary page and as an index page
TokenDocuments ==
    {FileContent(path, EXPRESS_SDK, FrontMatter("Buttons", "", "", NoTags), tokens) :
        path \in {"src/pages/guides/buttons.md", "src/pages/guides/index.md"},
        tokens \in UNION {[1..n -> TokenAlphabet] : n \in 0..MaxTokens}}

\* heading texts that meet and miss each rule of the kind assignment
HeadingTitles ==
    {"Methods", "Function list", "Properties", "Property", "Attributes", "Fields",
     "API", "Apiary", "Events", "Eventually", "Examples", "Example", "Exampls",
     "Usage", "Layout", "Methods and events", "Usage of the API", "Events: examples",
     "press()", "press ( key )", "label", "selected: string", "Notes on size",
     "item.size", "2 columns", "(optional)"}

\* one page per heading text and depth, the heading after a first section
HeadingDocuments ==
    {FileContent("src/pages/guides/buttons.md", EXPRESS_SDK,
                 FrontMatter("Buttons", "", type, NoTags),
                 <<Paragraph("Intro."), Heading(2, "Layout"), Paragraph("Rows."),
                   Heading(depth, title), Paragraph("Body.")>>) :
        title \in HeadingTitles, depth \in {2, 3}, type \in {"", "guide"}}

\* pages at paths with structural segments, in and out of the base
\* directories, with front-matter tags that are absent, a list, a list with
\* structural names, or a scalar
TagDocuments ==
    {FileContent(path, IF StartsWith(path, SWC_DOCS_PACKAGES_PATH)
                       THEN SPECTRUM_WEB_COMPONENTS ELSE EXPRESS_SDK,
                 FrontMatter("Page", "", "", tags), tokens) :
        path \in {"src/pages/guides/buttons.md", "src/pages/guides/_drafts/release.md",
                  "src/pages/index.md", "src/pages/src/pages/setup.md",
                  "docs/_private/notes.md", "packages/button/README.md",
                  "packages/tabs/src/tabs.md", "packages/_shared/index.md"},
        tags \in {NoTags, TagArray(<<>>), TagArray(<<"button", "ui">>),
                  TagArray(<<"src", "_draft", "">>), TagScalar("index"), TagScalar("#7")},
        tokens \in {<<Paragraph("Intro."), Heading(2, "Usage"), Paragraph("How to use.")>>,
                    <<Paragraph("Intro."), Heading(2, "Index of _internal pages"),
                      Paragraph("A list.")>>,
                    <<Paragraph("Only text.")>>}}

\* the files of the modelled repositories
RemoteDocuments ==
    UNION {{getFileContent([path |-> hit.path, repo |-> source], TRUE)[1] :
               hit \in Range(CorpusHits(source))} : source \in Range(Corpora)}

Documents == TokenDocuments \cup HeadingDocuments \cup TagDocuments \cup RemoteDocuments

InitSegmenter ==
    /\ currentKnowledgeMode = MODE_GITHUB
    /\ LOCAL_KNOWLEDGE_BASE = <<>>
    /\ query = IdleQuery
    /\ lastSet = NoSet
    /\ segmenter = IdleSegmenter
    /\ GITHUB_TOKEN = TRUE
    /\ tool = IdleTool

\* githubDocService.parseFileContentToMCPItems(fileContent)
ParseDocument(fileContent) ==
    /\ ~segmenter.called
    /\ segmenter' = Parsed(fileContent)
    /\ UNCHANGED <<currentKnowledgeMode, LOCAL_KNOWLEDGE_BASE, query, lastSet,
                   GITHUB_TOKEN, tool>>

\* the caller is done with the items, and the index built from the document
\* is removed
DropDocument ==
    /\ segmenter.called
    /\ segmenter' = IdleSegmenter
    /\ LOCAL_KNOWLEDGE_BASE' = <<>>
    /\ UNCHANGED <<currentKnowledgeMode, query, lastSet, GITHUB_TOKEN, tool>>

\* ---- the Local Index Builder (the parse-docs script) ----

\* the words of a heading: its maximal runs of word characters, in lower case
TitleWords(title) ==
    LET lower == ToLowerCase(title)
        runs == {ij \in (1..Len(lower)) \X (1..Len(lower)) :
                    /\ ij[1] <= ij[2]
                    /\ \A k \in ij[1]..ij[2] : IsWordChar(CharAt(lower, k))
                    /\ (ij[1] = 1 \/ ~IsWordChar(CharAt(lower, ij[1] - 1)))
                    /\ (ij[2] = Len(lower) \/ ~IsWordChar(CharAt(lower, ij[2] + 1)))}
    IN  {SubSeq(lower, ij[1], ij[2]) : ij \in runs}

\* a call signature: a "(" that follows a word character, whitespace between
\* them allowed, and a ")" after it
IsCallSignature(title) ==
    \E open \in 1..Len(title) :
        /\ CharAt(title, open) = "("
        /\ \E close \in (open + 1)..Len(title) : CharAt(title, close) = ")"
        /\ LET before == {k \in 1..(open - 1) : ~IsWhitespace(CharAt(title, k))}
           IN  before # {} /\ IsWordChar(CharAt(title, CHOOSE k \in before :
                                                          \A m \in before : m <= k))

\* a bare identifier: the heading up to its first blank or colon is a letter
\* or "_" followed by word characters and dots
IsBareIdentifier(title) ==
    LET stops == {k \in 1..Len(title) :
                     IsWhitespace(CharAt(title, k)) \/ CharAt(title, k) = ":"}
        cut == IF stops = {} THEN Len(title) + 1
               ELSE CHOOSE k \in stops : \A m \in stops : k <= m
    IN  /\ cut > 1
        /\ CharAt(title, 1) \in UpperSet \cup LowerSet \cup {"_"}
        /\ \A k \in 2..(cut - 1) : IsWordChar(CharAt(title, k)) \/ CharAt(title, k) = "."

\* the stated kind of the span a heading opens; the words of each rule are
\* those its pattern accepts (methods?, functions?, properties?, attributes?,
\* fields?, api, events?, example?s, usage)
StatedKind(depth, title) ==
    IF depth = 2
    THEN IF TitleWords(title) \cap {"method", "methods", "function", "functions"} # {}
         THEN "class_methods_group"
         ELSE IF TitleWords(title) \cap {"propertie", "properties", "attribute",
                                         "attributes", "field", "fields", "api"} # {}
         THEN "class_properties_group"
         ELSE IF TitleWords(title) \cap {"event", "events"} # {}
         THEN "class_events_group"
         ELSE IF TitleWords(title) \cap {"exampls", "examples", "usage"} # {}
         THEN "examples_section"
         ELSE "major_section"
    ELSE IF IsCallSignature(title) THEN "class_method_detail"
         ELSE IF IsBareIdentifier(title) THEN "class_property_detail"
         ELSE "minor_section"

\* the kind the builder gives the span of a heading: the stated rules for
\* headings of depth 2 and of depth 3
LocalIndexBuilderKind(depth, title) == StatedKind(depth, title)

\* the items the builder writes for one document: the document as one item
\* when it is not split; else the overview and, for every heading of depth 2
\* or 3 from the first heading of depth 2 on, the span up to the next such
\* heading, spans that render to nothing left out
LocalIndexBuilderItems(fileContent) ==
    LET tokens == fileContent.tokens
        first == FirstH2Index(tokens)
        basename == ToLowerCase(Basename(fileContent.path))
        headings == {i \in 1..Len(tokens) :
                        /\ first # 0 /\ i >= first
                        /\ tokens[i].type = "heading" /\ tokens[i].depth \in {2, 3}}
        last(i) == IF \E j \in headings : j > i
                   THEN (CHOOSE j \in headings : j > i /\ \A k \in headings : k > i => j <= k) - 1
                   ELSE Len(tokens)
        kept == {i \in headings : Trim(tokensToPlainText(SubSeq(tokens, i, last(i)))) # ""}
        nth(k) == CHOOSE i \in kept : Cardinality({j \in kept : j < i}) = k - 1
        spanItem(i) ==
            Item(LocalIndexBuilderKind(tokens[i].depth, StripBackticks(tokens[i].text)),
                 BaseTitle(fileContent) \o " - " \o StripBackticks(tokens[i].text),
                 tokensToPlainText(SubSeq(tokens, i, last(i))),
                 BaseTags(fileContent) \o SectionTags(StripBackticks(tokens[i].text)),
                 BaseTitle(fileContent), fileContent.dataSource)
    IN  IF first = 0 \/ basename = "index.md"
           \/ (fileContent.dataSource = SPECTRUM_WEB_COMPONENTS /\ basename = "readme.md")
        THEN parseFileContentToMCPItems(fileContent)
        ELSE SectionsOrFallback(
                 Overview(fileContent, first, BaseTitle(fileContent), BaseTags(fileContent))
                 \o [k \in 1..Cardinality(kept) |-> spanItem(nth(k))],
                 fileContent, BaseTitle(fileContent), BaseTags(fileContent))

\* the builder runs over the document the segmenter was given, and the
\* collection is what the file it wrote holds
buildLocalIndex ==
    /\ segmenter.called
    /\ LOCAL_KNOWLEDGE_BASE = <<>>
    /\ LOCAL_KNOWLEDGE_BASE' = LocalIndexBuilderItems(segmenter.fileContent)
    /\ UNCHANGED <<currentKnowledgeMode, query, lastSet, segmenter, GITHUB_TOKEN, tool>>

NextSegmenter ==
    \/ \E fileContent \in Documents : ParseDocument(fileContent)
    \/ buildLocalIndex
    \/ DropDocument

SpecSegmenter == InitSegmenter /\ [][NextSegmenter]_vars

-----------------------------------------------------------------------------
(* index.ts: getAssistantCapabilities and get-code-example;                 *)
(* github_doc_service.ts: getCodeSample                                     *)

MAX_KEYWORDS == 40

\* the tags the else branch adds
FallbackKeywords ==
    <<"adobe express", "sdk", "addon", "spectrum", "web components", "sp-button">>

\* the Set filled by forEach, as Array.from lists it: every tag once, in the
\* order of its first insertion
RECURSIVE AllTags(_)
AllTags(kb) ==
    IF kb = <<>> THEN <<>>
    ELSE LET before == AllTags(SubSeq(kb, 1, Len(kb) - 1))
             tags == kb[Len(kb)].tags
             fresh == {k \in 1..Len(tags) :
                          /\ tags[k] \notin Range(before)
                          /\ \A m \in 1..(k - 1) : tags[m] # tags[k]}
         IN  before \o [n \in 1..Cardinality(fresh) |->
                           tags[CHOOSE k \in fresh : Cardinality({m \in fresh : m < k}) = n - 1]]

\* a probe that lists every tag
AllKeywords(allTags) == allTags

\* Array.from(allTags).slice(0, 40)
SupportedKeywords(allTags) == SliceTo(allTags, MAX_KEYWORDS)

\* an index of 14 pages with three tags each, 42 tags in all
KbWide ==
    [i \in 1..14 |->
        Item("documentation_page", "Page " \o ToString(i), "Text.",
             <<"topic-" \o ToString(3 * i - 2), "topic-" \o ToString(3 * i - 1),
               "topic-" \o ToString(3 * i)>>, "", EXPRESS_SDK)]

\* the getAssistantCapabilities handler; it has no await
getAssistantCapabilities ==
    /\ tool.pc = "idle"
    /\ tool' = [IdleTool EXCEPT
           !.name = "getAssistantCapabilities", !.pc = "done",
           !.mode = currentKnowledgeMode,
           !.keywords =
               SupportedKeywords(IF currentKnowledgeMode = MODE_LOCAL
                                    /\ Length(LOCAL_KNOWLEDGE_BASE) > 0
                                 THEN AllTags(LOCAL_KNOWLEDGE_BASE)
                                 ELSE FallbackKeywords),
           !.text = IF currentKnowledgeMode = MODE_GITHUB
                    THEN "Live from GitHub (AdobeDocs & Adobe SWC)"
                    ELSE "Local knowledge_base.json (Express SDK & SWC)",
           !.current_mode = currentKnowledgeMode]
    /\ UNCHANGED <<currentKnowledgeMode, LOCAL_KNOWLEDGE_BASE, query, lastSet, segmenter,
                   GITHUB_TOKEN>>

\* features of GetCodeExampleInputSchema: with a static example and a sample
\* path, with a sample path only, with neither
Features == {"dialog-api", "export-assets", "client-storage", "get-current-page"}

\* featureToSamplePathMap
SamplePath(feature) ==
    CASE feature = "dialog-api" -> "dialog-add-on/src/components/App.jsx"
      [] feature = "export-assets" ->
            "export-assets-from-document/src/components/ExportContainer.jsx"
      [] feature = "client-storage" -> "use-client-storage/src/index.ts"
      [] OTHER -> ""

\* feature.split('-').map(word => word.charAt(0).toUpperCase() + word.slice(1)).join(' ')
formatFeatureName(feature) ==
    LET words == Split(feature, "-")
        Upper(c) == IF c \in LowerSet
                    THEN CharAt(UpperChars, CHOOSE i \in 1..Len(LowerChars) :
                                                CharAt(LowerChars, i) = c)
                    ELSE c
        Title(word) == Upper(CharAt(word, 1)) \o SubSeq(word, 2, Len(word))
        joined[n \in 1..Len(words)] ==
            IF n = 1 THEN Title(words[1]) ELSE joined[n - 1] \o " " \o Title(words[n])
    IN  joined[Len(words)]

\* the static example of a feature, each template by its first line
getCodeExample(feature, language, framework) ==
    CASE feature = "dialog-api" -> "// Example of using Adobe Express Dialog API"
      [] feature = "export-assets" ->
            "// Example of exporting assets from an Adobe Express document"
      [] OTHER -> "// Example code for " \o feature \o "\n// Implementation coming soon"

\* the static explanation of a feature, each text by its first line
getFeatureExplanation(feature) ==
    CASE feature = "dialog-api" ->
            "The Adobe Express Dialog API allows you to create various types of dialogs:"
      [] feature = "export-assets" ->
            "The Export Assets functionality allows users to export content:"
      [] OTHER -> "This feature enhances your Adobe Express add-on by providing "
                  \o formatFeatureName(feature) \o " functionality."

\* the text the get-code-example handler returns
CodeExampleText(feature, language, framework) ==
    LET usedLanguage == IF language = UNDEFINED THEN "javascript" ELSE language
        usedFramework == IF framework # UNDEFINED THEN framework
                         ELSE IF Includes(feature, "dialog") THEN "react" ELSE "vanilla"
    IN  "# Code Example: " \o formatFeatureName(feature) \o "\n\n"
        \o "Here's an example of how to implement " \o formatFeatureName(feature)
        \o " in an Adobe Express add-on"
        \o (IF usedFramework # "none" THEN " using " \o usedFramework ELSE "")
        \o ":\n\n" \o BACKTICK \o BACKTICK \o BACKTICK \o usedLanguage \o "\n"
        \o getCodeExample(feature, usedLanguage, usedFramework)
        \o "\n" \o BACKTICK \o BACKTICK \o BACKTICK \o "\n\n"
        \o "## Usage Explanation\n\n" \o getFeatureExplanation(feature)

\* the get-code-example handler; it has no await and calls no service
get_code_example(feature, language, framework) ==
    /\ tool.pc = "idle"
    /\ tool' = [IdleTool EXCEPT
           !.name = "get-code-example", !.pc = "done", !.feature = feature,
           !.language = language, !.framework = framework,
           !.mode = currentKnowledgeMode,
           !.text = CodeExampleText(feature, language, framework)]
    /\ UNCHANGED <<currentKnowledgeMode, LOCAL_KNOWLEDGE_BASE, query, lastSet, segmenter,
                   GITHUB_TOKEN>>

\* GitHubDocService.getCodeSample up to its await: null without a token, null
\* for a feature without a sample path, else the content request is issued
getCodeSample(feature, language, framework) ==
    /\ tool.pc = "idle"
    /\ tool' = [IdleTool EXCEPT
           !.name = "getCodeSample", !.feature = feature, !.language = language,
           !.framework = framework, !.mode = currentKnowledgeMode,
           !.pc = IF GITHUB_TOKEN /\ SamplePath(feature) # "" THEN "requesting" ELSE "done",
           !.requested = GITHUB_TOKEN /\ SamplePath(feature) # ""]
    /\ UNCHANGED <<currentKnowledgeMode, LOCAL_KNOWLEDGE_BASE, query, lastSet, segmenter,
                   GITHUB_TOKEN>>

\* the content request settles: a CodeSampleResult for a valid file (its code
\* text is not modelled), null for any other response and for an error
SampleResponse(outcome) ==
    /\ tool.pc = "requesting"
    /\ tool' = [tool EXCEPT
           !.pc = "done",
           !.sample = IF outcome = "ok"
                      THEN <<[filePath |-> "samples/" \o SamplePath(tool.feature),
                              feature |-> tool.feature]>>
                      ELSE <<>>]
    /\ UNCHANGED <<currentKnowledgeMode, LOCAL_KNOWLEDGE_BASE, query, lastSet, segmenter,
                   GITHUB_TOKEN>>

\* the result goes back to the caller
ToolReturns ==
    /\ tool.pc = "done"
    /\ tool' = IdleTool
    /\ UNCHANGED <<currentKnowledgeMode, LOCAL_KNOWLEDGE_BASE, query, lastSet, segmenter,
                   GITHUB_TOKEN>>

\* the server started with or without MCP_GITHUB_PAT, over any index file
InitTools ==
    /\ currentKnowledgeMode \in availableKnowledgeModes
    /\ \E file \in KbFiles \cup {KbFile(TRUE, KbWide)} :
           LOCAL_KNOWLEDGE_BASE = loadLocalKnowledgeBase(file)
    /\ query = IdleQuery
    /\ lastSet = NoSet
    /\ segmenter = IdleSegmenter
    /\ GITHUB_TOKEN \in BOOLEAN
    /\ tool = IdleTool

NextTools ==
    \/ \E mode \in availableKnowledgeModes, file \in KbFiles \cup {KbFile(TRUE, KbWide)} :
           setKnowledgeSource(mode, file)
    \/ getAssistantCapabilities
    \/ \E feature \in Features, language \in {UNDEFINED, "typescript"},
          framework \in {UNDEFINED, "none", "react"} :
           \/ get_code_example(feature, language, framework)
           \/ getCodeSample(feature, language, framework)
    \/ \E outcome \in {"ok", "invalid", "error"} : SampleResponse(outcome)
    \/ ToolReturns

SpecTools == InitTools /\ [][NextTools]_vars

-----------------------------------------------------------------------------
(* Properties of queryDocumentation responses                              *)

\* a response has been assembled and not yet handed back
Answered == query.pc = "done"
Returned == query.response.results

\* the local branch scored the collection (it was not empty)
LocalAnswered ==
    Answered /\ query.backend = MODE_LOCAL /\ query.results # <<ErrorInfoItem>>

\* the github branch ran to its end
GithubAnswered == Answered /\ query.backend = MODE_GITHUB

\* C1: every queryDocumentation response holds at least one item, and when the
\* branch that ran left no real item the response holds a placeholder, an item
\* whose type starts with no_match or error.
C1_ResultsNeverEmpty ==
    Answered =>
        /\ Len(Returned) > 0
        /\ (\A i \in 1..Len(query.results) : IsPlaceholder(query.results[i]))
               => \E i \in 1..Len(Returned) : IsPlaceholder(Returned[i])

\* C1 witness: a branch ended with no item at all and the response holds the
\* no_match placeholder alone
C1_PlaceholderReturned ==
    /\ Answered
    /\ query.results = <<>>
    /\ Len(Returned) = 1
    /\ Returned[1].type = "no_match"

\* C2: a response never holds more than 10 items, whichever branch ran.
C2_AtMostTenResults == Answered => Len(Returned) <= 10

\* C2 witness: the fetched files gave more than 10 items that passed the
\* post-filter, and 10 of them are returned
C2_MoreThanTenCut ==
    /\ GithubAnswered
    /\ Len(query.results) > 10
    /\ Len(Returned) = 10

\* the target a pair (hint, query text) resolves to by the stated rule
SpecifiedTarget(hint, query_text) ==
    IF hint \notin {UNDEFINED, ALL} THEN hint
    ELSE IF MentionsSpectrum(query_text) THEN SPECTRUM_WEB_COMPONENTS
    ELSE IF MentionsExpress(query_text) THEN EXPRESS_SDK
    ELSE ALL

\* the github branch writes an unconstrained target as "all", the local one as undefined
Unconstrained(target) == target \in {ALL, UNDEFINED}
SameTarget(a, b) == a = b \/ (Unconstrained(a) /\ Unconstrained(b))

\* C3: for the hint and the text of every query, the github branch and the
\* local branch resolve the same target, the one the stated rule gives: a hint
\* other than "all" as is, else the corpus the text names, else no constraint.
C3_SameTargetInBothBackends ==
    query.pc # "idle" =>
        /\ SameTarget(query.target, SpecifiedTarget(query.hint, query.query_text))
        /\ SameTarget(EffectiveTargetSource(query.hint, query.query_text),
                      EffectiveTargetSourceLocal(query.hint, query.query_text))

\* C3 witness of the divergence: a github query with the hint "all" whose text
\* names the component library searches both corpora
C3_HintAllSearchesBoth ==
    /\ query.pc = "searching"
    /\ query.hint = ALL
    /\ MentionsSpectrum(query.query_text)
    /\ query.target = ALL
    /\ EffectiveTargetSourceLocal(query.hint, query.query_text) = SPECTRUM_WEB_COMPONENTS

\* C4: the items of a local answer are in descending score order, items of
\* equal score are in the order of the collection, and the same query on the
\* same collection gives the same sequence again.
C4_DescendingStableOrder ==
    LocalAnswered =>
        /\ Len(query.scores) = Len(query.results)
        /\ Len(query.positions) = Len(query.results)
        /\ \A i \in 1..Len(query.results) :
               query.results[i] = LOCAL_KNOWLEDGE_BASE[query.positions[i]]
        /\ \A i, j \in 1..Len(query.results) :
               i < j => \/ query.scores[i] > query.scores[j]
                        \/ /\ query.scores[i] = query.scores[j]
                           /\ query.positions[i] < query.positions[j]
        /\ LocalBranch(LOCAL_KNOWLEDGE_BASE, query.query_text, query.hint).results
               = query.results

\* C4 witness: a local answer that holds two items of equal score and whose
\* order differs from the order of the collection
C4_TiesAndReordering ==
    /\ LocalAnswered
    /\ \E i, j \in 1..Len(query.scores) : i < j /\ query.scores[i] = query.scores[j]
    /\ \E i, j \in 1..Len(query.positions) : i < j /\ query.positions[i] > query.positions[j]

\* the score the stated formula gives an item: per query term 3 for the title,
\* 2 for the tags and 1 for the content, 1 for the parent title, 1 for the target
FormulaScore(item, query_text, target) ==
    LET terms == QueryTerms(query_text)
        title == ToLowerCase(item.title)
        content == ToLowerCase(item.content)
        tags == [k \in 1..Len(item.tags) |-> ToLowerCase(item.tags[k])]
        sum[n \in 0..Len(terms)] ==
            IF n = 0 THEN 0
            ELSE sum[n - 1]
                 + (IF Includes(title, terms[n]) THEN 3 ELSE 0)
                 + (IF \E k \in 1..Len(tags) : Includes(tags[k], terms[n]) THEN 2 ELSE 0)
                 + (IF Includes(content, terms[n]) THEN 1 ELSE 0)
    IN  sum[Len(terms)]
        + (IF item.parent_title # ""
              /\ Includes(ToLowerCase(item.parent_title), ToLowerCase(query_text))
           THEN 1 ELSE 0)
        + (IF item.dataSource = target THEN 1 ELSE 0)

\* the answer is the top 10, by stated score, of the items at the indexes in wanted
IsTopTenOf(wanted, score) ==
    LET returned == Range(query.positions)
    IN  /\ returned \subseteq wanted
        /\ Cardinality(returned) = Len(query.positions)
        /\ Len(query.positions) = Min(10, Cardinality(wanted))
        /\ \A k \in 1..Len(query.positions) :
               /\ query.scores[k] = score[query.positions[k]]
               /\ query.results[k] = LOCAL_KNOWLEDGE_BASE[query.positions[k]]
        /\ \A i \in wanted \ returned :
               \A k \in 1..Len(query.scores) : score[i] <= query.scores[k]

\* the stated score of every item of the collection for the query in hand
FormulaScores ==
    [i \in 1..Len(LOCAL_KNOWLEDGE_BASE) |->
        FormulaScore(LOCAL_KNOWLEDGE_BASE[i], query.query_text, query.target)]

\* C5 as stated: a local answer holds the items of the collection whose stated
\* score is greater than 0, cut to the 10 best.
C5_ReturnedIffScorePositive ==
    LocalAnswered =>
        \E score \in {FormulaScores} :
            IsTopTenOf({i \in 1..Len(LOCAL_KNOWLEDGE_BASE) : score[i] > 0}, score)

\* C5, amended: a local answer holds the items of the collection that are of
\* the resolved target corpus (any item when no target is resolved) and whose
\* stated score is greater than 0, cut to the 10 best; each returned item
\* carries the stated score.
C5_ReturnedIffInSourceAndScorePositive ==
    LocalAnswered =>
        \E score \in {FormulaScores} :
            IsTopTenOf({i \in 1..Len(LOCAL_KNOWLEDGE_BASE) :
                           /\ query.target = UNDEFINED
                              \/ LOCAL_KNOWLEDGE_BASE[i].dataSource = query.target
                           /\ score[i] > 0},
                       score)

\* C5 witness: a local answer that leaves out an item of another corpus whose
\* terms score, and leaves out an item of the target corpus that scores 0
C5_LeftOutByCorpusAndByScore ==
    /\ LocalAnswered
    /\ Len(query.results) > 0
    /\ \E i \in 1..Len(LOCAL_KNOWLEDGE_BASE) :
           /\ LOCAL_KNOWLEDGE_BASE[i].dataSource # query.target
           /\ FormulaScores[i] > 0
           /\ i \notin Range(query.positions)
    /\ \E i \in 1..Len(LOCAL_KNOWLEDGE_BASE) :
           /\ LOCAL_KNOWLEDGE_BASE[i].dataSource = EXPRESS_SDK
           /\ query.target \in {UNDEFINED, EXPRESS_SDK}
           /\ FormulaScores[i] = 0

\* the query of the scoring scenario, answered from the one-item collection
ButtonScenario ==
    /\ LocalAnswered
    /\ LOCAL_KNOWLEDGE_BASE = KbButton
    /\ query.query_text = "spectrum button click"
    /\ query.hint = UNDEFINED

\* C6 as stated: in the scoring scenario the item scores 8 and is returned.
C6_ButtonScoresEight ==
    ButtonScenario => query.scores = <<8>> /\ Returned = <<ButtonItem>>

\* C6, amended: in the scoring scenario the text names the component library,
\* so that corpus is the target: the item, being of that corpus, scores 9 (8
\* for its terms and 1 for its corpus) and is returned, and the same item of
\* any other corpus is not returned.
C6_ButtonScoresNine ==
    ButtonScenario =>
        /\ query.target = SPECTRUM_WEB_COMPONENTS
        /\ query.scores = <<9>>
        /\ Returned = <<ButtonItem>>
        /\ \A dataSource \in {EXPRESS_SDK, "code_sample", "unknown"} :
               LocalBranch(<<[ButtonItem EXCEPT !.dataSource = dataSource]>>,
                           query.query_text, query.hint).results = <<>>

\* C6 witness: the scoring scenario has been answered with the item
C6_ButtonScenarioAnswered == ButtonScenario /\ Len(Returned) = 1 /\ Len(query.scores) = 1

\* C7: when both corpora are searched and the request for one of them fails,
\* by a transport error or by a response of the wrong shape, searchFiles gives
\* every reference the other request delivered, and the handler goes on
\* without an error.
C7_CorpusIsolation ==
    \A failed, other \in Range(Corpora) :
        (/\ query.pc \in {"fetching", "done"}
         /\ query.target = ALL
         /\ query.search[failed].state \in {"invalid", "error"}
         /\ query.search[other].state = "ok")
        => /\ Len(query.searchResults) = Len(query.search[other].items)
           /\ \A k \in 1..Len(query.search[other].items) :
                  \E j \in 1..Len(query.searchResults) :
                      /\ query.searchResults[j].path = query.search[other].items[k].path
                      /\ query.searchResults[j].repo = other
           /\ Len(query.searchResults) > 0 => Len(query.fetches) > 0
           /\ (Answered /\ Len(query.searchResults) = 0) => Returned[1].type = "no_match_github"

\* C7 witness: the search of the SDK corpus failed on the shape of its
\* response and the two references of the other corpus are being fetched
C7_OtherCorpusDelivered ==
    /\ query.pc = "fetching"
    /\ query.target = ALL
    /\ query.search[EXPRESS_SDK].state = "invalid"
    /\ query.search[SPECTRUM_WEB_COMPONENTS].state = "ok"
    /\ Len(query.searchResults) = 2

\* an item holds a term of the query in its lowercased title or in a tag
HoldsATerm(r, query_text) ==
    \E term \in Range(QueryTermsForFilter(query_text)) :
        \/ Includes(ToLowerCase(r.title), term)
        \/ \E k \in 1..Len(r.tags) : Includes(StringOf(r.tags[k]), term)

\* C8: every item of a github answer that is not a placeholder holds, in its
\* title or in one of its tags, a term of the query longer than 2 characters.
C8_RemoteItemsHoldATerm ==
    GithubAnswered =>
        \A i \in 1..Len(Returned) :
            IsPlaceholder(Returned[i]) \/ HoldsATerm(Returned[i], query.query_text)

\* C8 witness of the divergence: the post-filter threw on a tag that is no
\* string, and the answer holds an unfiltered item beside the error item
C8_UnfilteredItemReturned ==
    /\ GithubAnswered
    /\ query.threw
    /\ \E i \in 1..Len(Returned) :
           ~IsPlaceholder(Returned[i]) /\ ~HoldsATerm(Returned[i], query.query_text)
    /\ \E i \in 1..Len(Returned) : Returned[i].type = "error_github"

\* C9: setKnowledgeSource(m) sets the mode to m and reports new_mode = m with
\* status success; it loads the collection exactly when m is local and the
\* collection is empty, and no other step changes the collection; a query
\* that starts after it runs the branch of m.
C9_SetKnowledgeSource ==
    /\ [](lastSet.called =>
            /\ currentKnowledgeMode = lastSet.mode
            /\ lastSet.new_mode = lastSet.mode
            /\ lastSet.status = "success"
            /\ lastSet.loaded <=> (lastSet.mode = MODE_LOCAL /\ lastSet.wasEmpty))
    /\ [][/\ LOCAL_KNOWLEDGE_BASE' # LOCAL_KNOWLEDGE_BASE =>
                /\ Len(LOCAL_KNOWLEDGE_BASE) = 0
                /\ currentKnowledgeMode' = MODE_LOCAL
                /\ lastSet'.loaded
          /\ (lastSet'.called /\ ~lastSet'.loaded) =>
                LOCAL_KNOWLEDGE_BASE' = LOCAL_KNOWLEDGE_BASE
          /\ (lastSet.called /\ query.pc = "idle" /\ query'.pc # "idle") =>
                query'.backend = lastSet.mode]_vars

\* C9 witness: a switch to local loaded the collection, and the query that
\* started after it was answered by the local branch
C9_LoadedThenLocalQuery ==
    /\ lastSet.called
    /\ lastSet.mode = MODE_LOCAL
    /\ lastSet.loaded
    /\ Len(LOCAL_KNOWLEDGE_BASE) > 0
    /\ Answered
    /\ query.backend = MODE_LOCAL

\* every search request of the query gave no reference
NoReferences ==
    \A source \in Range(Corpora) :
        Targeted(query.target, source) =>
            query.search[source].state # "pending" /\ query.search[source].items = <<>>

\* C10: a github query whose search gave no reference for any corpus it
\* searched answers with one no_match_github item, requests no file content
\* and reports the confidence 0.2.
C10_EmptySearch ==
    (GithubAnswered /\ NoReferences) =>
        /\ Len(Returned) = 1
        /\ Returned[1].type = "no_match_github"
        /\ query.fetches = <<>>
        /\ query.response.confidence_score = 20

\* C10 witness: both corpora were searched, both requests succeeded with an
\* empty list, and the query is answered
C10_BothSearchesEmpty ==
    /\ GithubAnswered
    /\ query.target = ALL
    /\ \A source \in Range(Corpora) :
           query.search[source].state = "ok" /\ query.search[source].items = <<>>

\* C11: a query handled in local mode while the collection is empty is answered
\* at once with exactly one item, of type error_info and carrying the tag kb,
\* and with the confidence 0.2 the handler starts from, never 0.3.
C11_EmptyCollection ==
    [][(/\ query.pc = "idle"
        /\ query'.pc = "done"
        /\ query'.backend = MODE_LOCAL
        /\ Len(LOCAL_KNOWLEDGE_BASE) = 0)
       => (/\ Len(query'.response.results) = 1
           /\ query'.response.results[1].type = "error_info"
           /\ "kb" \in Range(query'.response.results[1].tags)
           /\ query'.response.confidence_score = 20
           /\ query'.response.confidence_score # 30)]_vars

\* C11 witness: a local query was answered while the collection is empty
C11_EmptyCollectionAnswered ==
    /\ Answered
    /\ query.backend = MODE_LOCAL
    /\ Len(LOCAL_KNOWLEDGE_BASE) = 0
    /\ Len(Returned) = 1

\* the items a branch left that are not placeholders
RealResults == FilterSeq(query.results, {r \in Range(query.results) : ~IsPlaceholder(r)})

\* C12: the confidence of an answer is fixed by its outcome. Local: 0.8 when
\* at least one item scored above zero, 0.3 when a collection that is not empty
\* gave none. Github: 0.7 when items remain after the post-filter, 0.35 when
\* the search found files and nothing is left after fetching, segmenting and
\* filtering, 0.2 otherwise (no search hit, error in the branch).
C12_ConfidenceByOutcome ==
    /\ LocalAnswered =>
           query.response.confidence_score =
               IF \E k \in 1..Len(query.scores) : query.scores[k] > 0 THEN 80 ELSE 30
    /\ GithubAnswered =>
           query.response.confidence_score =
               IF query.threw \/ query.searchResults = <<>> THEN 20
               ELSE IF Len(RealResults) > 0 THEN 70
               ELSE 35

\* C12 witness: the search found files, their content was requested, and the
\* post-filter left nothing
C12_FoundFilesNothingLeft ==
    /\ GithubAnswered
    /\ query.searchResults # <<>>
    /\ ~query.threw
    /\ RealResults = <<>>
    /\ query.response.confidence_score = 35

\* the document of the last parseFileContentToMCPItems call and its tokens
Doc == segmenter.fileContent
DocTokens == segmenter.fileContent.tokens

IsSectionHeading(token) == token.type = "heading" /\ token.depth \in {2, 3}

\* the position of the first heading of depth 2 (0: the document has none)
FirstLevelTwo ==
    LET hits == {i \in 1..Len(DocTokens) :
                    DocTokens[i].type = "heading" /\ DocTokens[i].depth = 2}
    IN  IF hits = {} THEN 0 ELSE CHOOSE i \in hits : \A j \in hits : i <= j

\* the headings of depth 2 or 3 after the first heading of depth 2
HeadingsAfterFirst ==
    {i \in 1..Len(DocTokens) :
        FirstLevelTwo # 0 /\ i > FirstLevelTwo /\ IsSectionHeading(DocTokens[i])}

\* the headings of depth 2 or 3 from the first heading of depth 2 on
HeadingsFromFirst ==
    {i \in 1..Len(DocTokens) :
        FirstLevelTwo # 0 /\ i >= FirstLevelTwo /\ IsSectionHeading(DocTokens[i])}

\* the span a heading opens: up to the token before the next heading
SpanOf(i) ==
    LET later == {j \in HeadingsFromFirst : j > i}
        next == IF later = {} THEN Len(DocTokens) + 1
                ELSE CHOOSE j \in later : \A k \in later : j <= k
    IN  SubSeq(DocTokens, i, next - 1)

HasContent(tokens) == Trim(tokensToPlainText(tokens)) # ""
OverviewSpan == SubSeq(DocTokens, 1, FirstLevelTwo - 1)
EverySpanHasContent ==
    HasContent(OverviewSpan) /\ \A i \in HeadingsFromFirst : HasContent(SpanOf(i))

\* the document is split by headings: it has a heading of depth 2 and is
\* neither an index page nor the README of a component
SplitByHeadings ==
    /\ FirstLevelTwo # 0
    /\ ToLowerCase(Basename(Doc.path)) # "index.md"
    /\ ~(Doc.dataSource = SPECTRUM_WEB_COMPONENTS
         /\ ToLowerCase(Basename(Doc.path)) = "readme.md")

EmittedSpans ==
    {i \in HeadingsFromFirst :
        StripBackticks(DocTokens[i].text) # "" /\ HasContent(SpanOf(i))}

EmittedTags == UNION {Range(item.tags) : item \in Range(segmenter.items)}

\* C14: whatever the path, the front-matter and the headings of a document, no
\* tag of an item the Segmenter emits is "", "src", "pages" or "index", and none
\* starts with "_"; tags taken from the front-matter and tags made of heading
\* words included.
C14_TagHygiene ==
    segmenter.called =>
        \A tag \in EmittedTags :
            tag \notin {"", "src", "pages", "index"} /\ ~StartsWith(tag, "_")

\* C14 witness: a page without front-matter tags, whose path gives clean tags,
\* has an item that carries the heading words "index" and "_internal"
C14_HeadingWordsKept ==
    /\ segmenter.called
    /\ Doc.frontmatter.tags = NoTags
    /\ Doc.path = "src/pages/guides/buttons.md"
    /\ \E item \in Range(segmenter.items) : {"index", "_internal"} \subseteq Range(item.tags)

\* the headings whose span is emitted, in document order
OrderedSpans ==
    [k \in 1..Cardinality(EmittedSpans) |->
        CHOOSE i \in EmittedSpans : Cardinality({j \in EmittedSpans : j < i}) = k - 1]

\* the kinds and the titles of the items, in order
KindsAndTitles ==
    [k \in 1..Len(segmenter.items) |-> <<segmenter.items[k].type, segmenter.items[k].title>>]

C20_ModeUsedIsBackend ==
    Answered => query.response.mode_used = query.backend

\* C20 witness: a query that ran the github branch, fetched and segmented a
\* file, and was answered after the mode had been set to local
C20_SwitchedWhileSuspended ==
    /\ GithubAnswered
    /\ query.fetches # <<>>
    /\ segmenter.called
    /\ lastSet.called /\ lastSet.mode = MODE_LOCAL
    /\ query.response.mode_used = MODE_LOCAL

\* what a load leaves for a file that is absent, unreadable, no JSON, or no
\* list of items, according to the specification
CollectionOfCorruptIndex == LOCAL_KNOWLEDGE_BASE \in {<<>>, JsonObjectValue}

\* C18: when the index file is absent or corrupt (unreadable, no JSON, or no
\* list of items) the load leaves the collection empty, and a local query
\* handled after it is answered as for the empty collection, with the one
\* error_info item, and does not throw.
C18_CorruptIndexMeansEmpty ==
    /\ \A file \in KbFiles :
           (~file.exists \/ file.json # "list") => loadLocalKnowledgeBase(file) = <<>>
    /\ (query.backend = MODE_LOCAL /\ query.pc \in {"done", "thrown"}
        /\ CollectionOfCorruptIndex) =>
           query.pc = "done" /\ Returned = <<ErrorInfoItem>>

\* C18 witness: setKnowledgeSource loaded an index file that holds a JSON
\* object, and the local query that followed threw
C18_ObjectLoadedQueryThrew ==
    /\ lastSet.called /\ lastSet.loaded
    /\ LOCAL_KNOWLEDGE_BASE = JsonObjectValue
    /\ query.backend = MODE_LOCAL
    /\ query.pc = "thrown"

\* a get-code-example call was answered
CodeExampleAnswered == tool.name = "get-code-example" /\ tool.pc = "done"

\* C16: a get-code-example call handled in github mode obtains its example by
\* a content request to GitHub for the sample file of the feature, and its
\* text is not the static text the same call returns in local mode.
C16_GithubModeFetchesSample ==
    (CodeExampleAnswered /\ tool.mode = MODE_GITHUB) =>
        /\ tool.requested
        /\ tool.text # CodeExampleText(tool.feature, tool.language, tool.framework)

\* C16 witness: a get-code-example call for a feature that has a sample path
\* was answered in github mode, with a token, without any request
C16_StaticTextInGithubMode ==
    /\ CodeExampleAnswered
    /\ tool.mode = MODE_GITHUB
    /\ GITHUB_TOKEN
    /\ SamplePath(tool.feature) # ""
    /\ ~tool.requested

\* C17: without a token no remote operation of the service fails hard: a
\* search issues its requests, a content request is issued, and getCodeSample
\* for a feature that has a sample path issues its request.
C17_NoTokenStillRequests ==
    ~GITHUB_TOKEN =>
        /\ query.pc = "searching" =>
               \E source \in Range(Corpora) : query.search[source].state # "none"
        /\ query.pc = "fetching" => query.fetches # <<>>
        /\ (tool.name = "getCodeSample" /\ tool.pc # "idle"
            /\ SamplePath(tool.feature) # "") => tool.requested

\* C17 witness: getCodeSample returned null for a feature that has a sample
\* path, without a request, because no token is set
C17_SampleRefusedWithoutToken ==
    /\ ~GITHUB_TOKEN
    /\ tool.name = "getCodeSample" /\ tool.pc = "done"
    /\ SamplePath(tool.feature) # ""
    /\ ~tool.requested
    /\ tool.sample = <<>>

\* C19: getAssistantCapabilities lists at most 40 keywords; in local mode with
\* a loaded collection that is not empty every keyword is a tag of an item of
\* the collection, in any other case the keywords are the fixed list; the mode
\* it reports is the mode of the latest setKnowledgeSource call, or the
\* initial mode when there was none (nothing else changes the mode).
C19_Capabilities ==
    [][/\ (tool.pc = "idle" /\ tool'.pc = "done"
           /\ tool'.name = "getAssistantCapabilities") =>
              /\ Len(tool'.keywords) <= 40
              /\ IF currentKnowledgeMode = MODE_LOCAL /\ IsArray(LOCAL_KNOWLEDGE_BASE)
                    /\ Len(LOCAL_KNOWLEDGE_BASE) > 0
                 THEN \A k \in 1..Len(tool'.keywords) :
                          \E item \in Range(LOCAL_KNOWLEDGE_BASE) :
                              tool'.keywords[k] \in Range(item.tags)
                 ELSE tool'.keywords = <<"adobe express", "sdk", "addon", "spectrum",
                                         "web components", "sp-button">>
              /\ tool'.current_mode = currentKnowledgeMode
              /\ lastSet.called => tool'.current_mode = lastSet.mode
       /\ lastSet' = lastSet => currentKnowledgeMode' = currentKnowledgeMode]_vars

\* C19 witness: the probe was answered in local mode over a collection with
\* more than 40 tags, after a setKnowledgeSource call, and lists 40 keywords
C19_FortyOfFortyTwo ==
    /\ tool.name = "getAssistantCapabilities" /\ tool.pc = "done"
    /\ tool.mode = MODE_LOCAL
    /\ lastSet.called
    /\ LOCAL_KNOWLEDGE_BASE = KbWide
    /\ Len(AllTags(LOCAL_KNOWLEDGE_BASE)) = 42
    /\ Len(tool.keywords) = 40

-----------------------------------------------------------------------------
(* Properties of the content requests of a github query                    *)

\* C21 as stated: the number of references whose content is requested is the
\* number of search results cut at the cap of the search requests, 2 when both
\* corpora are searched and 5 when one corpus is targeted.
C21_FetchCapIsSearchCap ==
    GithubAnswered =>
        Len(query.fetches) =
            Min(Len(query.searchResults), IF query.target = ALL THEN 2 ELSE 5)

\* C21: the number of references whose content is requested is the number of
\* search results cut at 2 when both corpora are searched and at 3 when one
\* corpus is targeted, while a search request of one corpus lists up to 5.
C21_FetchCapTwoOrThree ==
    GithubAnswered =>
        /\ Len(query.fetches) =
               Min(Len(query.searchResults), IF query.target = ALL THEN 2 ELSE 3)
        /\ \A source \in Range(Corpora) :
               Len(query.search[source].items) <= (IF query.target = ALL THEN 2 ELSE 5)

\* C21 witness: one corpus was targeted, its search listed 5 references and
\* the content of 3 of them was requested
C21_FiveFoundThreeFetched ==
    /\ GithubAnswered
    /\ query.target # ALL
    /\ Len(query.searchResults) = 5
    /\ Len(query.fetches) = 3

\* the relevance score of the k-th merged search result, a missing score
\* counting as 0
RankOf(k) ==
    IF query.searchResults[k].hasScore THEN query.searchResults[k].score ELSE 0

\* the references of the search whose content the loop requests
FetchTarget == Min(Len(query.searchResults), IF query.target = ALL THEN 2 ELSE 3)

\* C22: in a github query no content request is issued while a search request
\* is pending; the content requests go out one at a time, by descending
\* relevance score (a missing score counting as 0), each one in the step in
\* which the one before it settles; and a request that gives no document
\* (absent file, invalid shape, transport error) is followed by the next one
\* like any other.
C22_FetchesAfterSearchInRankOrder ==
    /\ []((\E source \in Range(Corpora) : query.search[source].state = "pending")
              => query.fetches = <<>>)
    /\ [](/\ \A i \in 1..Len(query.fetches) :
                 query.fetches[i] = query.searchResults[i].path
          /\ \A i \in 1..Len(query.searchResults) : \A j \in i..Len(query.searchResults) :
                 RankOf(i) >= RankOf(j))
    /\ [][/\ (query'.pc # "idle" /\ query'.fetches # query.fetches)
                 => /\ Len(query'.fetches) = Len(query.fetches) + 1
                    /\ SubSeq(query'.fetches, 1, Len(query.fetches)) = query.fetches
                    /\ query.pc \in {"searching", "fetching"}
          /\ (query.pc = "fetching" /\ query' # query)
                 => IF Len(query.fetches) < FetchTarget
                    THEN query'.pc = "fetching"
                             /\ Len(query'.fetches) = Len(query.fetches) + 1
                    ELSE query'.pc = "done" /\ query'.fetches = query.fetches]_vars

\* C22 witness: the first content request gave no document, the second gave
\* one, and the third is in flight; the three follow the scores 9, 7, 6
C22_FailedFetchThenNext ==
    /\ query.pc = "fetching"
    /\ Len(query.fetches) = 3
    /\ segmenter.called
    /\ segmenter.fileContent.path = query.fetches[2]
    /\ query.results = segmenter.items
    /\ <<RankOf(1), RankOf(2), RankOf(3)>> = <<9, 7, 6>>
    /\ query.searchResults[1].path # ExpressHits[1].path

-----------------------------------------------------------------------------
(* Properties of the local collection under interleaved handlers           *)

\* what LOCAL_KNOWLEDGE_BASE holds after a complete load of each file the
\* index can be: nothing, the whole list, or the whole parsed object
CompleteCollections == {<<>>, KbButton, KbDocs, JsonObjectValue}

\* the step in which a local query scores the collection kb and is answered
LocalQueryStep ==
    /\ query.pc = "idle"
    /\ query'.pc = "done"
    /\ query'.backend = MODE_LOCAL
    /\ Length(LOCAL_KNOWLEDGE_BASE) > 0

\* the indexes of the collection whose items pass the source filter of the
\* answered query with a score above zero
ScoringPositions(kb, q) ==
    {k \in 1..Len(kb) :
        /\ PassesSourceFilter(kb[k], q.target)
        /\ ItemScore(kb[k], q.query_text, q.target) > 0}

\* C23: the collection is replaced as a whole. At every moment it is the
\* complete content of one index file, and a local query is answered in the
\* one step in which it reads the collection: every item it returns is an item
\* of that collection, every scoring item of the whole collection is returned
\* (up to the cut at 10), and the collection is the same before and after
\* the step, whatever setKnowledgeSource calls come before or after it.
C23_CollectionReplacedWhole ==
    /\ [](LOCAL_KNOWLEDGE_BASE \in CompleteCollections)
    /\ [][LocalQueryStep =>
            /\ LOCAL_KNOWLEDGE_BASE' = LOCAL_KNOWLEDGE_BASE
            /\ \A i \in 1..Len(query'.results) :
                   /\ query'.positions[i] \in ScoringPositions(LOCAL_KNOWLEDGE_BASE, query')
                   /\ query'.results[i] = LOCAL_KNOWLEDGE_BASE[query'.positions[i]]
            /\ \/ Range(query'.positions) = ScoringPositions(LOCAL_KNOWLEDGE_BASE, query')
               \/ Len(query'.results) = 10]_vars

\* C23 witness: setKnowledgeSource replaced the empty collection by the
\* 14 items of the index, and a local query was answered from items lying
\* at both ends of it
C23_ReloadedThenScoredWhole ==
    /\ Answered
    /\ query.backend = MODE_LOCAL
    /\ lastSet.loaded
    /\ LOCAL_KNOWLEDGE_BASE = KbDocs
    /\ \E i, j \in 1..Len(query.positions) :
           query.positions[i] <= 3 /\ query.positions[j] >= 12

-----------------------------------------------------------------------------
(* The Local Index Builder against the Segmenter                           *)

\* the place, in the builder's items, of the span the heading at token i opens
BuilderPlace(i) ==
    (IF HasContent(OverviewSpan) THEN 1 ELSE 0)
    + Cardinality({j \in HeadingsFromFirst : j <= i /\ HasContent(SpanOf(j))})

-----------------------------------------------------------------------------
(* Properties of the tags of fetched files                                 *)

\* the segmented file is the README of a component, packages/<component>/README.md,
\* and its front matter has no tags
IsComponentReadme ==
    /\ segmenter.called
    /\ Doc.dataSource = SPECTRUM_WEB_COMPONENTS
    /\ Doc.frontmatter.tags = NoTags
    /\ Len(Split(Doc.path, "/")) = 3
    /\ Split(Doc.path, "/")[1] = "packages"
    /\ Split(Doc.path, "/")[3] = "README.md"

\* C25: the item segmented from a fetched packages/<component>/README.md
\* without front-matter tags has the tags [<component>] and no other.
C25_ReadmeTaggedByComponentOnly ==
    IsComponentReadme =>
        \A item \in Range(segmenter.items) :
            item.tags = <<ToLowerCase(Split(Doc.path, "/")[2])>>

\* C25 witness: packages/button/README.md was fetched in a github query and
\* segmented into one item, whose tags are "button" and "readme.md"
C25_ReadmeTaggedWithFileName ==
    /\ IsComponentReadme
    /\ query.pc \in {"fetching", "done"}
    /\ Doc.path = "packages/button/README.md"
    /\ Len(segmenter.items) = 1
    /\ segmenter.items[1].tags = <<"button", "readme.md">>

-----------------------------------------------------------------------------
(* Properties of placeholders, relevance and the summary text              *)

\* C26: an answer that holds a placeholder (an item whose type starts with
\* error or no_match) holds nothing else; an error_github item never comes
\* with items segmented from files fetched earlier in the query.
C26_PlaceholderStandsAlone ==
    Answered =>
        ((\E i \in 1..Len(Returned) : IsPlaceholder(Returned[i])) => Len(Returned) = 1)

\* C26 witness: two files were fetched and segmented, the post-filter threw,
\* and the error_github item is returned after the items of those files
C26_ErrorAfterFetchedItems ==
    /\ GithubAnswered
    /\ Len(query.fetches) >= 2
    /\ Len(Returned) >= 3
    /\ Returned[Len(Returned)].type = "error_github"
    /\ \A i \in 1..(Len(Returned) - 1) :
           ~IsPlaceholder(Returned[i]) /\ Returned[i].dataSource = EXPRESS_SDK

\* the item is relevant to the query text: a term of the query occurs in its
\* title, in one of its tags or in its content, or its parent title holds the
\* whole query
IsRelevant(item, query_text) ==
    \/ \E term \in Range(QueryTerms(query_text)) :
           \/ Includes(ToLowerCase(item.title), term)
           \/ \E k \in 1..Len(item.tags) : Includes(ToLowerCase(item.tags[k]), term)
           \/ Includes(ToLowerCase(item.content), term)
    \/ /\ item.parent_title # ""
       /\ Includes(ToLowerCase(item.parent_title), ToLowerCase(query_text))

\* C27: every item of a local answer that is not a placeholder is relevant to
\* the query text; no item is returned, with the confidence 0.8, for the one
\* reason that it is of the resolved target corpus.
C27_LocalItemsAreRelevant ==
    LocalAnswered =>
        \A i \in 1..Len(Returned) :
            IsPlaceholder(Returned[i]) \/ IsRelevant(Returned[i], query.query_text)

\* C27 witness: the query "sp-tabs api" resolves to the component corpus, no
\* item of the collection holds one of its terms, and the answer holds items
\* of that corpus, each with the score 1, at the confidence 0.8
C27_ReturnedForCorpusAlone ==
    /\ LocalAnswered
    /\ query.query_text = "sp-tabs api"
    /\ query.target = SPECTRUM_WEB_COMPONENTS
    /\ Len(Returned) > 0
    /\ \A i \in 1..Len(Returned) :
           /\ ~IsRelevant(Returned[i], query.query_text)
           /\ Returned[i].dataSource = SPECTRUM_WEB_COMPONENTS
           /\ query.scores[i] = 1
    /\ query.response.confidence_score = 80

\* C28: when a local query resolves a target corpus (a hint other than "all",
\* else the corpus its text names), every item of the collection in the
\* answer is of that corpus: an item of the other corpus is left out whatever
\* the terms of the query score on it.
C28_OnlyTargetCorpusReturned ==
    LocalAnswered =>
        \A target \in {SpecifiedTarget(query.hint, query.query_text)} :
            target # ALL =>
                \A i \in 1..Len(Returned) :
                    IsPlaceholder(Returned[i]) \/ Returned[i].dataSource = target

\* C28 witness: a target is resolved, and an item of the other corpus on
\* which the terms score more than the score of a returned item is left out
C28_BetterScoredItemLeftOut ==
    /\ LocalAnswered
    /\ SpecifiedTarget(query.hint, query.query_text) \in {EXPRESS_SDK, SPECTRUM_WEB_COMPONENTS}
    /\ \E k \in 1..Len(LOCAL_KNOWLEDGE_BASE) : \E i \in 1..Len(query.scores) :
           /\ LOCAL_KNOWLEDGE_BASE[k].dataSource
                  \in {EXPRESS_SDK, SPECTRUM_WEB_COMPONENTS} \ {query.target}
           /\ k \notin Range(query.positions)
           /\ ItemScoreTermsOnly(LOCAL_KNOWLEDGE_BASE[k], query.query_text, query.target)
                  > query.scores[i]
           /\ Len(Returned) < 10

\* C29: the summary text of an answer reports the number of items of its
\* structured results and lists these items, one block per item.
C29_SummaryMatchesResults ==
    Answered =>
        /\ query.response.found = Len(Returned)
        /\ query.response.listed = [i \in 1..Len(Returned) |-> Returned[i].title]

\* C29 witness: the fetched files gave more than 10 items that passed the
\* post-filter; the text reports and lists them all, the structured results
\* hold the first 10
C29_TextCountsUncutResults ==
    /\ GithubAnswered
    /\ ~query.threw
    /\ Len(Returned) = 10
    /\ query.response.found > 10
    /\ Len(query.response.listed) = query.response.found
    /\ SubSeq(query.response.listed, 1, 10) = [i \in 1..10 |-> Returned[i].title]

-----------------------------------------------------------------------------
(* Properties of the content of a split document                           *)

\* the headings from the first heading of depth 2 on whose span renders to a
\* text that is not empty, in document order
SpansWithContent == {i \in HeadingsFromFirst : HasContent(SpanOf(i))}
OrderedSpansWithContent ==
    [k \in 1..Cardinality(SpansWithContent) |->
        CHOOSE i \in SpansWithContent : Cardinality({j \in SpansWithContent : j < i}) = k - 1]

\* C30: a document split by headings loses no content: every span of a
\* heading of depth 2 or 3 that renders to a text that is not empty, the text
\* of the heading itself being empty or not, is the source of exactly one
\* section item, so every block from the first heading of depth 2 on lies in
\* exactly one item.
C30_EverySpanWithContentEmitted ==
    (segmenter.called /\ SplitByHeadings /\ SpansWithContent # {}) =>
        LET first == IF HasContent(OverviewSpan) THEN 1 ELSE 0
        IN  /\ Len(segmenter.items) = first + Len(OrderedSpansWithContent)
            /\ \A k \in 1..Len(OrderedSpansWithContent) :
                   segmenter.items[first + k].content
                       = tokensToPlainText(SpanOf(OrderedSpansWithContent[k]))

\* C30 witness: the page has an overview, a section "Usage" and a section
\* under a heading without text; the items are the overview and "Usage", and
\* the paragraph under the empty heading is in no item
C30_SpanOfEmptyHeadingDropped ==
    /\ segmenter.called
    /\ SplitByHeadings
    /\ DocTokens = <<Paragraph("Text."), Heading(2, "Usage"), Heading(2, ""), Paragraph("Text.")>>
    /\ SpansWithContent = {2, 3}
    /\ Len(segmenter.items) = 2
    /\ segmenter.items[2].content = "Usage"

=============================================================================
